---- MODULE Spec2Model ----
(***************************************************************************)
(* SoundFont 2 decoder of sf2-player: the legacy Parser class              *)
(* (Parser.parse, createPreset, createInstrument) and the parse()          *)
(* function, modelled over byte buffers.                                   *)
(*                                                                         *)
(* A JavaScript string is modelled as the sequence of its character codes, *)
(* a Uint8Array as a sequence of bytes (index i of the code is index i+1   *)
(* here), an object as a function from its property names.                 *)
(***************************************************************************)
EXTENDS Integers, Sequences, FiniteSets, TLC

\* ------------------------------------------------------------------------
\* JavaScript values and 32-bit integer operators
\* ------------------------------------------------------------------------

\* `undefined` where a byte is expected (an index outside a typed array)
undefined == -1

\* `undefined` where a string is expected (a hole of the generator table)
void0 == "<undefined>"

\* Numbers are the 32-bit integers of the bitwise operators, held as signed
\* values in -2^31 .. 2^31 - 1.
MinInt32 == -2147483647 - 1

RECURSIVE Pow2(_)
Pow2(n) == IF n = 0 THEN 1 ELSE 2 * Pow2(n - 1)

\* x << 1: the low 31 bits of x move up by one
Shl1(x) ==
  LET low == IF x >= 0 THEN x ELSE x - MinInt32
  IN  IF low >= 1073741824 THEN 2 * (low - 1073741824) + MinInt32 ELSE 2 * low

\* x << n
RECURSIVE Shl(_, _)
Shl(x, n) == IF n = 0 \/ x = 0 THEN x ELSE Shl(Shl1(x), n - 1)

\* x >> n (sign-propagating)
Sar(x, n) == x \div Pow2(n)

\* x | y on two's complement integers
RECURSIVE BitOr(_, _)
BitOr(x, y) ==
  IF x = 0 THEN y
  ELSE IF y = 0 THEN x
  ELSE IF x = -1 \/ y = -1 THEN -1
  ELSE (IF x % 2 = 1 \/ y % 2 = 1 THEN 1 ELSE 0) + 2 * BitOr(x \div 2, y \div 2)

\* x >>> 0; a result of 2^31 or more has no value here: the inputs keep the
\* top bit of every 32-bit field clear
Ushr0(x) == CASE x >= 0 -> x

\* data[i] of a Uint8Array
At(data, i) == IF i >= 0 /\ i < Len(data) THEN data[i + 1] ELSE undefined

\* data[i] as the operand of a bitwise operator: undefined converts to 0
Byte(data, i) == IF i >= 0 /\ i < Len(data) THEN data[i + 1] ELSE 0

\* data.subarray(begin, end): both ends clamped to the array
Min(a, b) == IF a < b THEN a ELSE b
Max(a, b) == IF a > b THEN a ELSE b
subarray(data, begin, end) ==
  LET b == Min(Max(begin, 0), Len(data))
      e == Min(Max(end, 0), Len(data))
  IN  IF e <= b THEN << >> ELSE SubSeq(data, b + 1, e)

\* String.fromCharCode of one element; undefined has character code 0
CharCode(b) == IF b = undefined THEN 0 ELSE b

\* String.fromCharCode(data[ip], data[ip+1], data[ip+2], data[ip+3])
fromCharCode4(data, ip) ==
  << CharCode(At(data, ip)), CharCode(At(data, ip + 1)),
     CharCode(At(data, ip + 2)), CharCode(At(data, ip + 3)) >>

\* data[ip] | (data[ip+1] << 8)
ReadU16(data, ip) == BitOr(Byte(data, ip), Shl(Byte(data, ip + 1), 8))

\* (data[ip] | (data[ip+1] << 8) | (data[ip+2] << 16) | (data[ip+3] << 24)) >>> 0
ReadU32(data, ip) ==
  Ushr0(BitOr(BitOr(BitOr(Shl(Byte(data, ip), 0), Shl(Byte(data, ip + 1), 8)),
                    Shl(Byte(data, ip + 2), 16)),
              Shl(Byte(data, ip + 3), 24)))

\* data[ip] | (data[ip + 1] << 8), without the sign extension
ReadAmountUnsigned(data, ip) ==
  BitOr(Byte(data, ip), Shl(Byte(data, ip + 1), 8))

\* data[ip] | (data[ip + 1] << 8) << 16 >> 16: the shifts bind tighter than |
ReadAmount(data, ip) ==
  BitOr(Byte(data, ip), Sar(Shl(Shl(Byte(data, ip + 1), 8), 16), 16))

\* (data[ip] << 24) >> 24
ReadI8(data, ip) == Sar(Shl(Byte(data, ip), 24), 24)

\* ------------------------------------------------------------------------
\* Strings of the format
\* ------------------------------------------------------------------------
sRIFF == <<82, 73, 70, 70>>
sLIST == <<76, 73, 83, 84>>
sSFBK == <<115, 102, 98, 107>>
sINFO == <<73, 78, 70, 79>>
sSDTA == <<115, 100, 116, 97>>
sPDTA == <<112, 100, 116, 97>>
sPHDR == <<112, 104, 100, 114>>
sPBAG == <<112, 98, 97, 103>>
sPMOD == <<112, 109, 111, 100>>
sPGEN == <<112, 103, 101, 110>>
sINST == <<105, 110, 115, 116>>
sIBAG == <<105, 98, 97, 103>>
sIMOD == <<105, 109, 111, 100>>
sIGEN == <<105, 103, 101, 110>>
sSHDR == <<115, 104, 100, 114>>
sSMPL == <<115, 109, 112, 108>>
sINAM == <<73, 78, 65, 77>>
sEOP == <<69, 79, 80>>
sEOI == <<69, 79, 73>>
sEOS == <<69, 79, 83>>

\* the nine pdta subchunk types in the order parsePdtaList decodes them
PdtaTypes == << sPHDR, sPBAG, sPMOD, sPGEN, sINST, sIBAG, sIMOD, sIGEN, sSHDR >>

\* ------------------------------------------------------------------------
\* RIFF chunk walker (riff.js / RiffParser: not part of the sources at hand)
\* ------------------------------------------------------------------------

\* Sibling chunks {type, size, offset} covering [ip, end); a chunk whose
\* header or declared size passes the end of the range is an error.
RECURSIVE Walk(_, _, _, _)
Walk(data, ip, end, acc) ==
  IF ip >= end THEN [ok |-> TRUE, chunkList |-> acc]
  ELSE IF ip + 8 > end \/ ip + 8 > Len(data) THEN [ok |-> FALSE, chunkList |-> acc]
  ELSE LET size == ReadU32(data, ip + 4)
           offset == ip + 8
       IN  IF offset + size > end
           THEN [ok |-> FALSE, chunkList |-> acc]
           ELSE Walk(data, offset + size + (size % 2), end,
                     Append(acc, [type |-> fromCharCode4(data, ip),
                                  size |-> size, offset |-> offset]))

parseRiff(data, index, length) == Walk(data, index, index + length, << >>)

\* ------------------------------------------------------------------------
\* The generator enumeration and the record decoders of the Parser class
\* ------------------------------------------------------------------------
GeneratorEnumeratorTable ==
  << "startAddrsOffset", "endAddrsOffset", "startloopAddrsOffset",
     "endloopAddrsOffset", "startAddrsCoarseOffset", "modLfoToPitch",
     "vibLfoToPitch", "modEnvToPitch", "initialFilterFc", "initialFilterQ",
     "modLfoToFilterFc", "modEnvToFilterFc", "endAddrsCoarseOffset",
     "modLfoToVolume", void0,
     "chorusEffectsSend", "reverbEffectsSend", "pan", void0, void0, void0,
     "delayModLFO", "freqModLFO", "delayVibLFO", "freqVibLFO", "delayModEnv",
     "attackModEnv", "holdModEnv", "decayModEnv", "sustainModEnv",
     "releaseModEnv", "keynumToModEnvHold", "keynumToModEnvDecay",
     "delayVolEnv", "attackVolEnv", "holdVolEnv", "decayVolEnv",
     "sustainVolEnv", "releaseVolEnv", "keynumToVolEnvHold",
     "keynumToVolEnvDecay", "instrument", void0,
     "keyRange", "velRange", "startloopAddrsCoarseOffset", "keynum",
     "velocity", "initialAttenuation", void0,
     "endloopAddrsCoarseOffset", "coarseTune", "fineTune", "sampleID",
     "sampleModes", void0,
     "scaleTuning", "exclusiveClass", "overridingRootKey", "endOper" >>

\* the table indexed by the code modulo its length
TableAtWrapped(code) ==
  GeneratorEnumeratorTable[(code % Len(GeneratorEnumeratorTable)) + 1]

\* this.GeneratorEnumeratorTable[code]
TableAt(code) ==
  IF code >= 0 /\ code < Len(GeneratorEnumeratorTable)
  THEN GeneratorEnumeratorTable[code + 1] ELSE void0

\* the names of the table
KnownNames == { GeneratorEnumeratorTable[k] : k \in 1..Len(GeneratorEnumeratorTable) } \ {void0}

\* the names whose amount is a pair of bytes (the cases of the switch)
RangeNames == {"keyRange", "velRange", "keynum", "velocity"}

\* one iteration of the loop of parseGenerator: the record read at ip
GeneratorRecord(data, ip) ==
  LET code == ReadU16(data, ip)
      key == TableAt(code)
  IN  IF key = void0
      THEN [type |-> key,
            value |-> [code |-> code, amount |-> ReadAmount(data, ip + 2),
                       lo |-> At(data, ip + 2), hi |-> At(data, ip + 3)]]
      ELSE IF key \in RangeNames
      THEN [type |-> key,
            value |-> [lo |-> At(data, ip + 2), hi |-> At(data, ip + 3)]]
      ELSE [type |-> key, value |-> [amount |-> ReadAmount(data, ip + 2)]]

\* the loop of parseGenerator: 4 bytes a record on every branch
RECURSIVE GeneratorLoop(_, _, _, _)
GeneratorLoop(data, ip, size, output) ==
  IF ip < size
  THEN GeneratorLoop(data, ip + 4, size, Append(output, GeneratorRecord(data, ip)))
  ELSE output

parseGenerator(data, chunk) ==
  GeneratorLoop(data, chunk.offset, chunk.offset + chunk.size, << >>)

\* the record read from its first byte, the source operator not stepped over
ModulatorRecordNoSkip(data, ip) ==
  LET code == ReadU16(data, ip)
      key == TableAt(code)
  IN  IF key = void0
      THEN [type |-> key,
            value |-> [code |-> code, amount |-> ReadAmount(data, ip + 2),
                       lo |-> At(data, ip + 2), hi |-> At(data, ip + 3)]]
      ELSE IF key \in RangeNames
      THEN [type |-> key,
            value |-> [lo |-> At(data, ip + 2), hi |-> At(data, ip + 3)]]
      ELSE [type |-> key, value |-> [amount |-> ReadAmount(data, ip + 2)]]

\* one iteration of the loop of parseModulator: ip is the start of the
\* record, the destination code is read after the 2 skipped bytes
ModulatorRecord(data, ip) ==
  LET code == ReadU16(data, ip + 2)
      key == TableAt(code)
  IN  IF key = void0
      THEN [type |-> key,
            value |-> [code |-> code, amount |-> ReadAmount(data, ip + 4),
                       lo |-> At(data, ip + 4), hi |-> At(data, ip + 5)]]
      ELSE IF key \in RangeNames
      THEN [type |-> key,
            value |-> [lo |-> At(data, ip + 4), hi |-> At(data, ip + 5)]]
      ELSE [type |-> key, value |-> [amount |-> ReadAmount(data, ip + 4)]]

\* the loop of parseModulator: 2 skipped, 2 code, 2 amount, 2 + 2 skipped
RECURSIVE ModulatorLoop(_, _, _, _)
ModulatorLoop(data, ip, size, output) ==
  IF ip < size
  THEN ModulatorLoop(data, ip + 10, size, Append(output, ModulatorRecord(data, ip)))
  ELSE output

parseModulator(data, chunk) ==
  ModulatorLoop(data, chunk.offset, chunk.offset + chunk.size, << >>)

\* the loop of Parser.parsePhdr: 38 bytes a record
RECURSIVE PhdrLoop(_, _, _, _)
PhdrLoop(data, ip, size, presetHeader) ==
  IF ip < size
  THEN PhdrLoop(data, ip + 38, size,
         Append(presetHeader,
           [presetName |-> subarray(data, ip, ip + 20),
            preset |-> ReadU16(data, ip + 20),
            bank |-> ReadU16(data, ip + 22),
            presetBagIndex |-> ReadU16(data, ip + 24),
            library |-> ReadU32(data, ip + 26),
            genre |-> ReadU32(data, ip + 30),
            morphology |-> ReadU32(data, ip + 34)]))
  ELSE presetHeader

\* the loop of Parser.parsePbag: 4 bytes a record
RECURSIVE PbagLoop(_, _, _, _)
PbagLoop(data, ip, size, presetZone) ==
  IF ip < size
  THEN PbagLoop(data, ip + 4, size,
         Append(presetZone,
           [presetGeneratorIndex |-> ReadU16(data, ip),
            presetModulatorIndex |-> ReadU16(data, ip + 2)]))
  ELSE presetZone

\* the loop of Parser.parseInst: 22 bytes a record
RECURSIVE InstLoop(_, _, _, _)
InstLoop(data, ip, size, instrument) ==
  IF ip < size
  THEN InstLoop(data, ip + 22, size,
         Append(instrument,
           [instrumentName |-> subarray(data, ip, ip + 20),
            instrumentBagIndex |-> ReadU16(data, ip + 20)]))
  ELSE instrument

\* the loop of Parser.parseIbag: 4 bytes a record
RECURSIVE IbagLoop(_, _, _, _)
IbagLoop(data, ip, size, instrumentZone) ==
  IF ip < size
  THEN IbagLoop(data, ip + 4, size,
         Append(instrumentZone,
           [instrumentGeneratorIndex |-> ReadU16(data, ip),
            instrumentModulatorIndex |-> ReadU16(data, ip + 2)]))
  ELSE instrumentZone

\* the sample i as a view of the caller's buffer (buffer 0) when it was not
\* doubled: new Int16Array(data.buffer, byteOffset, extracted)
Int16ArrayView(i, byteOffset, extracted, sample) ==
  IF Len(sample) = extracted
  THEN [buffer |-> 0, byteOffset |-> byteOffset]
  ELSE [buffer |-> i, byteOffset |-> 0]

\* new Int16Array(new Uint8Array(data.subarray(...)).buffer): the Uint8Array
\* constructor copies the bytes of the view into an ArrayBuffer of its own,
\* and adjustSampleData allocates again when it doubles; the sample i is a
\* view of the whole of a buffer i no other object refers to
Int16ArrayBuffer(i, byteOffset, extracted, sample) ==
  [buffer |-> i, byteOffset |-> 0]

\* the buffers of the samples built for these headers
SampleViews(samples, sampleHeader, samplingOffset) ==
  [i \in 1..Len(samples) |->
     Int16ArrayBuffer(i, samplingOffset + sampleHeader[i].start * 2,
                      Max(0, sampleHeader[i].end - sampleHeader[i].start), samples[i])]

\* new Int16Array(bytes.buffer): little-endian pairs, two's complement
RECURSIVE Int16Of(_)
Int16Of(bytes) ==
  IF Len(bytes) < 2 THEN << >>
  ELSE LET u == bytes[1] + 256 * bytes[2]
       IN  << (IF u >= 32768 THEN u - 65536 ELSE u) >>
             \o Int16Of(SubSeq(bytes, 3, Len(bytes)))

\* the inner for loop of adjustSampleData: every element written twice
RECURSIVE Duplicate(_)
Duplicate(sample) ==
  IF sample = << >> THEN << >>
  ELSE << sample[1], sample[1] >> \o Duplicate(Tail(sample))

\* Parser.adjustSampleData(sample, sampleRate); rate is this.sampleRate
RECURSIVE adjustSampleData(_, _, _, _)
adjustSampleData(sample, sampleRate, multiply, rate) ==
  IF sampleRate < rate
  THEN adjustSampleData(Duplicate(sample), sampleRate * 2, multiply * 2, rate)
  ELSE [sample |-> sample, multiply |-> multiply]

\* the record at ip with the loop points as read, scaled but not rebased
ShdrRecordAsRead(data, ip, samplingOffset, rate) ==
  LET start == ReadU32(data, ip + 20)
      end == ReadU32(data, ip + 24)
      startLoop == ReadU32(data, ip + 28)
      endLoop == ReadU32(data, ip + 32)
      sampleRate == ReadU32(data, ip + 36)
      bytes == subarray(data, samplingOffset + start * 2, samplingOffset + end * 2)
      sample == Int16Of(bytes)
      adjust == IF sampleRate > 0
                THEN adjustSampleData(sample, sampleRate, 1, rate)
                ELSE [sample |-> sample, multiply |-> 1]
  IN  [ok |-> Len(bytes) % 2 = 0,
       sample |-> adjust.sample,
       header |->
         [sampleName |-> subarray(data, ip, ip + 20),
          start |-> start,
          end |-> end,
          startLoop |-> startLoop * adjust.multiply,
          endLoop |-> endLoop * adjust.multiply,
          sampleRate |-> sampleRate * adjust.multiply,
          originalPitch |-> At(data, ip + 40),
          pitchCorrection |-> ReadI8(data, ip + 41),
          sampleLink |-> ReadU16(data, ip + 42),
          sampleType |-> ReadU16(data, ip + 44)]]

\* one iteration of the loop of Parser.parseShdr: the header pushed and the
\* sample pushed for the record at ip; ok is FALSE when the Int16Array
\* constructor throws (odd byte length)
ShdrRecord(data, ip, samplingOffset, rate) ==
  LET start == ReadU32(data, ip + 20)
      end == ReadU32(data, ip + 24)
      startLoop == ReadU32(data, ip + 28)
      endLoop == ReadU32(data, ip + 32)
      sampleRate == ReadU32(data, ip + 36)
      bytes == subarray(data, samplingOffset + start * 2, samplingOffset + end * 2)
      sample == Int16Of(bytes)
      adjust == IF sampleRate > 0
                THEN adjustSampleData(sample, sampleRate, 1, rate)
                ELSE [sample |-> sample, multiply |-> 1]
  IN  [ok |-> Len(bytes) % 2 = 0,
       sample |-> adjust.sample,
       header |->
         [sampleName |-> subarray(data, ip, ip + 20),
          start |-> start,
          end |-> end,
          startLoop |-> (startLoop - start) * adjust.multiply,
          endLoop |-> (endLoop - start) * adjust.multiply,
          sampleRate |-> sampleRate * adjust.multiply,
          originalPitch |-> At(data, ip + 40),
          pitchCorrection |-> ReadI8(data, ip + 41),
          sampleLink |-> ReadU16(data, ip + 42),
          sampleType |-> ReadU16(data, ip + 44)]]

\* the loop of Parser.parseShdr: 46 bytes a record
RECURSIVE ShdrLoop(_, _, _, _, _, _, _)
ShdrLoop(data, ip, size, samplingOffset, rate, samples, sampleHeader) ==
  IF ip < size
  THEN LET r == ShdrRecord(data, ip, samplingOffset, rate)
       IN  IF r.ok
           THEN ShdrLoop(data, ip + 46, size, samplingOffset, rate,
                         Append(samples, r.sample), Append(sampleHeader, r.header))
           ELSE [ok |-> FALSE, sample |-> samples, sampleHeader |-> sampleHeader]
  ELSE [ok |-> TRUE, sample |-> samples, sampleHeader |-> sampleHeader]

\* ------------------------------------------------------------------------
\* Input buffers: SF2 files written from a description
\* ------------------------------------------------------------------------

\* most records of one pdta table in an input file
MaxRecords == 2

U16LE(n) == << n % 256, (n \div 256) % 256 >>
U32LE(n) == << n % 256, (n \div 256) % 256, (n \div 65536) % 256, (n \div 16777216) % 256 >>

RECURSIVE Zeros(_)
Zeros(n) == IF n <= 0 THEN << >> ELSE << 0 >> \o Zeros(n - 1)

Pad20(name) == name \o Zeros(20 - Len(name))

RECURSIVE Concat(_)
Concat(seqs) == IF seqs = << >> THEN << >> ELSE Head(seqs) \o Concat(Tail(seqs))

\* a chunk: tag, little-endian size, payload, pad byte after an odd payload
EncChunk(tag, payload) ==
  tag \o U32LE(Len(payload)) \o payload \o (IF Len(payload) % 2 = 1 THEN << 0 >> ELSE << >>)

EncPhdr(name, bagIndex) ==
  Pad20(name) \o U16LE(bagIndex) \o U16LE(0) \o U16LE(bagIndex) \o U32LE(0) \o U32LE(0) \o U32LE(0)
EncInst(name, bagIndex) == Pad20(name) \o U16LE(bagIndex)
EncBag(genIndex, modIndex) == U16LE(genIndex) \o U16LE(modIndex)
EncGen(code, b0, b1) == U16LE(code) \o << b0, b1 >>
EncMod(code, b0, b1) == << 0, 0 >> \o U16LE(code) \o << b0, b1 >> \o << 0, 0 >> \o << 0, 0 >>
EncShdr(name, start, end, startLoop, endLoop, sampleRate) ==
  Pad20(name) \o U32LE(start) \o U32LE(end) \o U32LE(startLoop) \o U32LE(endLoop)
    \o U32LE(sampleRate) \o << 60, 254 >> \o U16LE(0) \o U16LE(1)

\* the names of the records of one table: "n" an ordinary name, "s" the
\* sentinel name of the table
NamePatterns ==
  UNION { [1..n -> {"n", "s"}] : n \in 1..MaxRecords }

\* the ways the fixed topology is broken ("ok": it is not)
Mutations ==
  { "ok", "outer0", "outer2", "outerType", "outerSig", "outerSize",
    "sfbk2", "sfbk4", "infoType", "infoSig", "sdtaType", "sdtaSig",
    "sdta0", "sdta2", "pdtaType", "pdtaSig", "pdta8", "pdta10", "swap",
    "sub1", "sub2", "sub3", "sub4", "sub5", "sub6", "sub7", "sub8", "sub9" }

SubMutation(k) ==
  << "sub1", "sub2", "sub3", "sub4", "sub5", "sub6", "sub7", "sub8", "sub9" >>[k]

RecordName(pat, i, letter, sentinel) ==
  IF pat[i] = "s" THEN sentinel ELSE << letter, 48 + i >>

\* the payloads of the nine pdta subchunks for a name pattern
PdtaPayload(pat, k) ==
  LET n == Len(pat)
  IN  CASE k = 1 -> Concat([i \in 1..n |-> EncPhdr(RecordName(pat, i, 80, sEOP), i - 1)])
        [] k = 2 -> Concat([i \in 1..n |-> EncBag(i - 1, 0)])
        [] k = 3 -> EncMod(0, 0, 0)
        [] k = 4 -> Concat([i \in 1..n |-> IF i < n THEN EncGen(41, i - 1, 0) ELSE EncGen(0, 0, 0)])
        [] k = 5 -> Concat([i \in 1..n |-> EncInst(RecordName(pat, i, 73, sEOI), i - 1)])
        [] k = 6 -> Concat([i \in 1..n |-> EncBag(i - 1, 0)])
        [] k = 7 -> EncMod(0, 0, 0)
        [] k = 8 -> Concat([i \in 1..n |-> IF i < n THEN EncGen(53, i - 1, 0) ELSE EncGen(0, 0, 0)])
        [] k = 9 -> Concat([i \in 1..n |->
                      EncShdr(RecordName(pat, i, 83, sEOS), i - 1, i + 1, i, i + 1,
                              IF i % 2 = 1 THEN 11025 ELSE 44100)])

\* the sample data: frames 1, -2, 3, -4, ...
SmplPayload(n) ==
  Concat([i \in 1..n |-> IF i % 2 = 1 THEN << i, 0 >> ELSE << 256 - i, 255 >>])

PdtaType(mut, k) ==
  IF mut = SubMutation(k) THEN sSMPL
  ELSE IF mut = "swap" /\ k = 2 THEN sPMOD
  ELSE IF mut = "swap" /\ k = 3 THEN sPBAG
  ELSE PdtaTypes[k]

InfoList(mut) ==
  EncChunk(IF mut = "infoType" THEN sRIFF ELSE sLIST,
           (IF mut = "infoSig" THEN sSDTA ELSE sINFO) \o EncChunk(sINAM, << 65, 0 >>))

SdtaList(mut, smpl) ==
  EncChunk(IF mut = "sdtaType" THEN sRIFF ELSE sLIST,
           (IF mut = "sdtaSig" THEN sINFO ELSE sSDTA)
             \o (IF mut = "sdta0" THEN << >> ELSE EncChunk(sSMPL, smpl))
             \o (IF mut = "sdta2" THEN EncChunk(sSMPL, << 0, 0 >>) ELSE << >>))

\* tables: the payloads of the nine pdta subchunks
PdtaList(mut, tables) ==
  EncChunk(IF mut = "pdtaType" THEN sRIFF ELSE sLIST,
           (IF mut = "pdtaSig" THEN sSDTA ELSE sPDTA)
             \o Concat([k \in 1..(IF mut = "pdta8" THEN 8 ELSE 9) |->
                          EncChunk(PdtaType(mut, k), tables[k])])
             \o (IF mut = "pdta10" THEN EncChunk(sSHDR, << >>) ELSE << >>))

RiffChunkBytes(mut, tables, smpl) ==
  LET payload ==
        (IF mut = "outerSig" THEN sPDTA ELSE sSFBK)
          \o InfoList(mut) \o SdtaList(mut, smpl)
          \o (IF mut = "sfbk2" THEN << >> ELSE PdtaList(mut, tables))
          \o (IF mut = "sfbk4" THEN InfoList(mut) ELSE << >>)
      whole == EncChunk(IF mut = "outerType" THEN sLIST ELSE sRIFF, payload)
  IN  IF mut = "outerSize"
      THEN SubSeq(whole, 1, 4) \o U32LE(Len(payload) + 2) \o payload
      ELSE whole

FileBytes(mut, tables, smpl) ==
  IF mut = "outer0" THEN << >>
  ELSE IF mut = "outer2"
  THEN RiffChunkBytes(mut, tables, smpl) \o RiffChunkBytes(mut, tables, smpl)
  ELSE RiffChunkBytes(mut, tables, smpl)

Files ==
  { FileBytes(mut, [k \in 1..9 |-> PdtaPayload(pat, k)], SmplPayload(Len(pat) + 2)) :
      mut \in Mutations, pat \in NamePatterns }

\* Files whose bag, generator and modulator tables vary. The preset and the
\* instrument side hold the same headers, bags and records; an index may
\* point one past the table it indexes.
MaxHeaders == 2
MaxBags == 2
MaxGens == 2
MaxMods == 1

\* the destination codes of the records: instrument, keyRange, a code
\* outside the table
RecordCodes == {41, 43, 61}

\* the sequences of length n over lo..hi that never decrease
RECURSIVE Monotone(_, _, _)
Monotone(n, lo, hi) ==
  IF n = 0 THEN { << >> }
  ELSE { s \in { << v >> \o rest : v \in lo..hi, rest \in Monotone(n - 1, lo, hi) } :
           Len(s) < 2 \/ s[1] <= s[2] }

\* headers: the bag index of each header; genIndex: the generator index of
\* each bag (its modulator index is the same, cut to the modulator table);
\* gens: the code of each generator record (the modulator records are the
\* last ones of these, in reverse)
ZoneConfigs ==
  { [headers |-> h, genIndex |-> g, gens |-> gs] :
      h \in Monotone(MaxHeaders, 0, MaxBags + 1),
      g \in Monotone(MaxBags, 0, MaxGens + 1),
      gs \in [1..MaxGens -> RecordCodes] }

ZoneTables(cfg) ==
  LET headers == cfg.headers
      phdr == Concat([i \in 1..Len(headers) |-> EncPhdr(<< 80, 48 + i >>, headers[i])])
      inst == Concat([i \in 1..Len(headers) |-> EncInst(<< 73, 48 + i >>, headers[i])])
      bag == Concat([i \in 1..Len(cfg.genIndex) |->
               EncBag(cfg.genIndex[i], Min(cfg.genIndex[i], MaxMods + 1))])
      gen == Concat([i \in 1..Len(cfg.gens) |-> EncGen(cfg.gens[i], i, 10 + i)])
      mod == Concat([i \in 1..Min(MaxMods, Len(cfg.gens)) |->
               EncMod(cfg.gens[Len(cfg.gens) + 1 - i], 100 + i, 200 + i)])
  IN  << phdr, bag, mod, gen, inst, bag, mod, gen, << >> >>

\* ------------------------------------------------------------------------
\* State
\* ------------------------------------------------------------------------
VARIABLES
  impl,    \* the decoder the caller runs: "Parser" (the class) or "parse" (the function)
  option,  \* the options object the caller passed, by name
  input,   \* the caller's byte buffer
  pc,      \* the method about to run, or "parsed" / "returned" / "thrown"
  chunk,   \* the chunk descriptors held in locals, by name
  self,    \* the properties of the Parser instance that are set, by name
  local,   \* the properties of the object literals parse() has evaluated so far
  ret,     \* what the finished call handed to the caller, by name
  error,   \* the message of the Error thrown, "" when none
  views    \* the ArrayBuffer each decoded sample is a view of, and at which byte

vars == << impl, option, input, pc, chunk, self, local, ret, error, views >>

\* obj[k] = v
Put(obj, k, v) == [x \in DOMAIN obj \cup {k} |-> IF x = k THEN v ELSE obj[x]]

\* an object without properties
Empty == [x \in {} |-> 0]

\* the target sample rate of the constructor: optParams.sampleRate || 22050
DefaultSampleRate == 22050

\* optParams.sampleRate || 22050
OptSampleRate(optParams) ==
  IF "sampleRate" \in DOMAIN optParams /\ optParams["sampleRate"] # 0
  THEN optParams["sampleRate"]
  ELSE DefaultSampleRate

\* throw new Error(msg) from inside the call
Throw(msg) == pc' = "thrown" /\ error' = msg

\* ------------------------------------------------------------------------
\* Parser.parse() and the methods it calls, one action a method
\* ------------------------------------------------------------------------
ParserNew(buffer, optParams) ==
  /\ impl = "Parser"
  /\ option = optParams
  /\ input = buffer
  /\ pc = "parse"
  /\ chunk = Empty
  /\ self = [x \in {"input", "sampleRate"} |->
               IF x = "input" THEN "buffer" ELSE OptSampleRate(optParams)]
  /\ local = Empty
  /\ ret = Empty
  /\ error = ""
  /\ views = << >>

Parser_parse ==
  /\ impl = "Parser" /\ pc = "parse"
  /\ LET parser == parseRiff(input, 0, Len(input))
     IN  IF ~parser.ok
         THEN Throw("out of bounds") /\ UNCHANGED chunk
         ELSE IF Len(parser.chunkList) # 1
         THEN Throw("wrong chunk length") /\ UNCHANGED chunk
         ELSE /\ chunk' = Put(chunk, "riff", parser.chunkList[1])
              /\ pc' = "parseRiffChunk"
              /\ UNCHANGED error
  /\ UNCHANGED << impl, option, views, input, self, local, ret >>

Parser_parseRiffChunk ==
  /\ impl = "Parser" /\ pc = "parseRiffChunk"
  /\ LET c == chunk["riff"]
         signature == fromCharCode4(input, c.offset)
         parser == parseRiff(input, c.offset + 4, c.size - 4)
     IN  IF c.type # sRIFF
         THEN Throw("invalid chunk type") /\ UNCHANGED chunk
         ELSE IF signature # sSFBK
         THEN Throw("invalid signature") /\ UNCHANGED chunk
         ELSE IF ~parser.ok
         THEN Throw("out of bounds") /\ UNCHANGED chunk
         ELSE IF Len(parser.chunkList) # 3
         THEN Throw("invalid sfbk structure") /\ UNCHANGED chunk
         ELSE /\ chunk' = Put(chunk, "sfbk", parser.chunkList)
              /\ pc' = "parseInfoList"
              /\ UNCHANGED error
  /\ UNCHANGED << impl, option, views, input, self, local, ret >>

Parser_parseInfoList ==
  /\ impl = "Parser" /\ pc = "parseInfoList"
  /\ LET c == chunk["sfbk"][1]
         signature == fromCharCode4(input, c.offset)
         parser == parseRiff(input, c.offset + 4, c.size - 4)
     IN  IF c.type # sLIST
         THEN Throw("invalid chunk type")
         ELSE IF signature # sINFO
         THEN Throw("invalid signature")
         ELSE IF ~parser.ok
         THEN Throw("out of bounds")
         ELSE pc' = "parseSdtaList" /\ UNCHANGED error
  /\ UNCHANGED << impl, option, views, input, chunk, self, local, ret >>

Parser_parseSdtaList ==
  /\ impl = "Parser" /\ pc = "parseSdtaList"
  /\ LET c == chunk["sfbk"][2]
         signature == fromCharCode4(input, c.offset)
         parser == parseRiff(input, c.offset + 4, c.size - 4)
     IN  IF c.type # sLIST
         THEN Throw("invalid chunk type") /\ UNCHANGED self
         ELSE IF signature # sSDTA
         THEN Throw("invalid signature") /\ UNCHANGED self
         ELSE IF ~parser.ok
         THEN Throw("out of bounds") /\ UNCHANGED self
         ELSE IF Len(parser.chunkList) # 1
         THEN Throw("TODO") /\ UNCHANGED self
         ELSE /\ self' = Put(self, "samplingData", parser.chunkList[1])
              /\ pc' = "parsePdtaList"
              /\ UNCHANGED error
  /\ UNCHANGED << impl, option, views, input, chunk, local, ret >>

Parser_parsePdtaList ==
  /\ impl = "Parser" /\ pc = "parsePdtaList"
  /\ LET c == chunk["sfbk"][3]
         signature == fromCharCode4(input, c.offset)
         parser == parseRiff(input, c.offset + 4, c.size - 4)
     IN  IF c.type # sLIST
         THEN Throw("invalid chunk type") /\ UNCHANGED chunk
         ELSE IF signature # sPDTA
         THEN Throw("invalid signature") /\ UNCHANGED chunk
         ELSE IF ~parser.ok
         THEN Throw("out of bounds") /\ UNCHANGED chunk
         ELSE IF Len(parser.chunkList) # 9
         THEN Throw("invalid pdta chunk") /\ UNCHANGED chunk
         ELSE /\ chunk' = Put(chunk, "pdta", parser.chunkList)
              /\ pc' = "parsePhdr"
              /\ UNCHANGED error
  /\ UNCHANGED << impl, option, views, input, self, local, ret >>

Parser_parsePhdr ==
  /\ impl = "Parser" /\ pc = "parsePhdr"
  /\ LET c == chunk["pdta"][1]
     IN  IF c.type # sPHDR
         THEN /\ self' = Put(self, "presetHeader", << >>)
              /\ Throw("invalid chunk type")
         ELSE /\ self' = Put(self, "presetHeader",
                             PhdrLoop(input, c.offset, c.offset + c.size, << >>))
              /\ pc' = "parsePbag"
              /\ UNCHANGED error
  /\ UNCHANGED << impl, option, views, input, chunk, local, ret >>

Parser_parsePbag ==
  /\ impl = "Parser" /\ pc = "parsePbag"
  /\ LET c == chunk["pdta"][2]
     IN  IF c.type # sPBAG
         THEN /\ self' = Put(self, "presetZone", << >>)
              /\ Throw("invalid chunk type")
         ELSE /\ self' = Put(self, "presetZone",
                             PbagLoop(input, c.offset, c.offset + c.size, << >>))
              /\ pc' = "parsePmod"
              /\ UNCHANGED error
  /\ UNCHANGED << impl, option, views, input, chunk, local, ret >>

Parser_parsePmod ==
  /\ impl = "Parser" /\ pc = "parsePmod"
  /\ LET c == chunk["pdta"][3]
     IN  IF c.type # sPMOD
         THEN Throw("invalid chunk type") /\ UNCHANGED self
         ELSE /\ self' = Put(self, "presetZoneModulator", parseModulator(input, c))
              /\ pc' = "parsePgen"
              /\ UNCHANGED error
  /\ UNCHANGED << impl, option, views, input, chunk, local, ret >>

Parser_parsePgen ==
  /\ impl = "Parser" /\ pc = "parsePgen"
  /\ LET c == chunk["pdta"][4]
     IN  IF c.type # sPGEN
         THEN Throw("invalid chunk type") /\ UNCHANGED self
         ELSE /\ self' = Put(self, "presetZoneGenerator", parseGenerator(input, c))
              /\ pc' = "parseInst"
              /\ UNCHANGED error
  /\ UNCHANGED << impl, option, views, input, chunk, local, ret >>

Parser_parseInst ==
  /\ impl = "Parser" /\ pc = "parseInst"
  /\ LET c == chunk["pdta"][5]
     IN  IF c.type # sINST
         THEN /\ self' = Put(self, "instrument", << >>)
              /\ Throw("invalid chunk type")
         ELSE /\ self' = Put(self, "instrument",
                             InstLoop(input, c.offset, c.offset + c.size, << >>))
              /\ pc' = "parseIbag"
              /\ UNCHANGED error
  /\ UNCHANGED << impl, option, views, input, chunk, local, ret >>

Parser_parseIbag ==
  /\ impl = "Parser" /\ pc = "parseIbag"
  /\ LET c == chunk["pdta"][6]
     IN  IF c.type # sIBAG
         THEN /\ self' = Put(self, "instrumentZone", << >>)
              /\ Throw("invalid chunk type")
         ELSE /\ self' = Put(self, "instrumentZone",
                             IbagLoop(input, c.offset, c.offset + c.size, << >>))
              /\ pc' = "parseImod"
              /\ UNCHANGED error
  /\ UNCHANGED << impl, option, views, input, chunk, local, ret >>

Parser_parseImod ==
  /\ impl = "Parser" /\ pc = "parseImod"
  /\ LET c == chunk["pdta"][7]
     IN  IF c.type # sIMOD
         THEN Throw("invalid chunk type") /\ UNCHANGED self
         ELSE /\ self' = Put(self, "instrumentZoneModulator", parseModulator(input, c))
              /\ pc' = "parseIgen"
              /\ UNCHANGED error
  /\ UNCHANGED << impl, option, views, input, chunk, local, ret >>

Parser_parseIgen ==
  /\ impl = "Parser" /\ pc = "parseIgen"
  /\ LET c == chunk["pdta"][8]
     IN  IF c.type # sIGEN
         THEN Throw("invalid chunk type") /\ UNCHANGED self
         ELSE /\ self' = Put(self, "instrumentZoneGenerator", parseGenerator(input, c))
              /\ pc' = "parseShdr"
              /\ UNCHANGED error
  /\ UNCHANGED << impl, option, views, input, chunk, local, ret >>

Parser_parseShdr ==
  /\ impl = "Parser" /\ pc = "parseShdr"
  /\ LET c == chunk["pdta"][9]
         r == ShdrLoop(input, c.offset, c.offset + c.size,
                       self["samplingData"].offset, self["sampleRate"], << >>, << >>)
     IN  IF c.type # sSHDR
         THEN /\ self' = Put(Put(self, "sample", << >>), "sampleHeader", << >>)
              /\ views' = << >>
              /\ Throw("invalid chunk type")
         ELSE /\ self' = Put(Put(self, "sample", r.sample), "sampleHeader", r.sampleHeader)
              /\ views' = SampleViews(r.sample, r.sampleHeader, self["samplingData"].offset)
              /\ IF ~r.ok
                 THEN Throw("invalid typed array length")
                 ELSE pc' = "parseReturn" /\ UNCHANGED error
  /\ UNCHANGED << impl, option, input, chunk, local, ret >>

\* parse() starting over where it should return
Parser_parseAgain ==
  /\ impl = "Parser" /\ pc = "parseReturn"
  /\ self' = Put(self, "input", "buffer")
  /\ pc' = "parse"
  /\ UNCHANGED << impl, option, views, input, chunk, local, ret, error >>

\* the end of Parser.parse(): this.input = null
Parser_parseReturn ==
  /\ impl = "Parser" /\ pc = "parseReturn"
  /\ self' = Put(self, "input", "null")
  /\ pc' = "parsed"
  /\ UNCHANGED << impl, option, views, input, chunk, local, ret, error >>

\* ------------------------------------------------------------------------
\* Parser.createPreset() / createInstrument(): the zone resolver
\* ------------------------------------------------------------------------

\* the values a variable that is undefined, null or a number can hold
jsUndefined == [js |-> "undefined"]
jsNull == [js |-> "null"]
jsNumber(n) == [js |-> "number", n |-> n]

\* obj[name] of a record that may lack the property
Prop(obj, name) == IF name \in DOMAIN obj THEN obj[name] ELSE undefined

\* the property key a record type is stored under: modgen[info.type]
PropertyKey(type) == IF type = void0 THEN "undefined" ELSE type

\* the for loop of createBagModGen_; ok is FALSE when info.type throws on a
\* record outside the list
RECURSIVE BagModGenLoop(_, _, _, _, _)
BagModGenLoop(i, il, zoneModGen, modgen, modgenInfo) ==
  IF i # undefined /\ i < il
  THEN IF i >= Len(zoneModGen)
       THEN [ok |-> FALSE, modgen |-> modgen, modgenInfo |-> modgenInfo]
       ELSE LET info == zoneModGen[i + 1]
            IN  BagModGenLoop(i + 1, il, zoneModGen,
                  IF info.type = "unknown"
                  THEN Put(modgen, "unknown", Append(modgen["unknown"], info.value))
                  ELSE Put(modgen, PropertyKey(info.type), info.value),
                  Append(modgenInfo, info))
  ELSE [ok |-> TRUE, modgen |-> modgen, modgenInfo |-> modgenInfo]

\* a seed whose keyRange spans the whole byte
ModGenSeedFullByte ==
  [x \in {"unknown", "keyRange"} |->
     IF x = "unknown" THEN << >> ELSE [hi |-> 255, lo |-> 0]]

\* the map createBagModGen_ starts from
ModGenSeed ==
  [x \in {"unknown", "keyRange"} |->
     IF x = "unknown" THEN << >> ELSE [hi |-> 127, lo |-> 0]]

createBagModGen_(zone, indexStart, indexEnd, zoneModGen) ==
  BagModGenLoop(indexStart, indexEnd, zoneModGen, ModGenSeed, << >>)

\* zone[index] is undefined: reading a property of it throws
Threw == [ok |-> FALSE, modgen |-> ModGenSeed, modgenInfo |-> << >>]

createInstrumentGenerator_(this, zone, index) ==
  IF index >= Len(zone) THEN Threw
  ELSE createBagModGen_(zone,
         Prop(zone[index + 1], "instrumentGeneratorIndex"),
         IF index + 1 < Len(zone)
         THEN Prop(zone[index + 2], "instrumentGeneratorIndex")
         ELSE Len(this["instrumentZoneGenerator"]),
         this["instrumentZoneGenerator"])

createInstrumentModulator_(this, zone, index) ==
  IF index >= Len(zone) THEN Threw
  ELSE createBagModGen_(zone,
         Prop(zone[index + 1], "presetModulatorIndex"),
         IF index + 1 < Len(zone)
         THEN Prop(zone[index + 2], "instrumentModulatorIndex")
         ELSE Len(this["instrumentZoneModulator"]),
         this["instrumentZoneModulator"])

createPresetGenerator_(this, zone, index) ==
  IF index >= Len(zone) THEN Threw
  ELSE createBagModGen_(zone,
         Prop(zone[index + 1], "presetGeneratorIndex"),
         IF index + 1 < Len(zone)
         THEN Prop(zone[index + 2], "presetGeneratorIndex")
         ELSE Len(this["presetZoneGenerator"]),
         this["presetZoneGenerator"])

createPresetModulator_(this, zone, index) ==
  IF index >= Len(zone) THEN Threw
  ELSE createBagModGen_(zone,
         Prop(zone[index + 1], "presetModulatorIndex"),
         IF index + 1 < Len(zone)
         THEN Prop(zone[index + 2], "presetModulatorIndex")
         ELSE Len(this["presetZoneModulator"]),
         this["presetZoneModulator"])

\* the inner for loop of createInstrument over the bags j .. jl - 1
RECURSIVE InstrumentBagLoop(_, _, _, _, _)
InstrumentBagLoop(this, zone, j, jl, zoneInfo) ==
  IF j < jl
  THEN LET instrumentGenerator == createInstrumentGenerator_(this, zone, j)
           instrumentModulator == createInstrumentModulator_(this, zone, j)
       IN  IF ~instrumentGenerator.ok \/ ~instrumentModulator.ok
           THEN [ok |-> FALSE, zoneInfo |-> zoneInfo]
           ELSE InstrumentBagLoop(this, zone, j + 1, jl,
                  Append(zoneInfo,
                    [generator |-> instrumentGenerator.modgen,
                     generatorSequence |-> instrumentGenerator.modgenInfo,
                     modulator |-> instrumentModulator.modgen,
                     modulatorSequence |-> instrumentModulator.modgenInfo]))
  ELSE [ok |-> TRUE, zoneInfo |-> zoneInfo]

\* bagIndexEnd of createInstrument for the header i
InstrumentBagIndexEnd(instrument, zone, i) ==
  IF i + 1 < Len(instrument) THEN instrument[i + 2].instrumentBagIndex ELSE Len(zone)

\* the outer for loop of createInstrument
RECURSIVE InstrumentLoop(_, _, _)
InstrumentLoop(this, i, output) ==
  LET instrument == this["instrument"]
      zone == this["instrumentZone"]
  IN  IF i < Len(instrument)
      THEN LET bagIndex == instrument[i + 1].instrumentBagIndex
               bagIndexEnd == InstrumentBagIndexEnd(instrument, zone, i)
               bags == InstrumentBagLoop(this, zone, bagIndex, bagIndexEnd, << >>)
           IN  IF ~bags.ok
               THEN [ok |-> FALSE, output |-> output]
               ELSE InstrumentLoop(this, i + 1,
                      Append(output, [name |-> instrument[i + 1].instrumentName,
                                      info |-> bags.zoneInfo]))
      ELSE [ok |-> TRUE, output |-> output]

createInstrument(this) == InstrumentLoop(this, 0, << >>)

\* the link taken from the modulator map before the generator map
LinkedInstrumentModulatorFirst(generator, modulator) ==
  IF "instrument" \in DOMAIN modulator
  THEN jsNumber(modulator["instrument"].amount)
  ELSE IF "instrument" \in DOMAIN generator
  THEN jsNumber(generator["instrument"].amount)
  ELSE jsNull

\* the `instrument` assigned at the end of an iteration of the preset bag loop
LinkedInstrument(generator, modulator) ==
  IF "instrument" \in DOMAIN generator
  THEN jsNumber(generator["instrument"].amount)
  ELSE IF "instrument" \in DOMAIN modulator
  THEN jsNumber(modulator["instrument"].amount)
  ELSE jsNull

\* the inner for loop of createPreset over the bags j .. jl - 1
RECURSIVE PresetBagLoop(_, _, _, _, _, _)
PresetBagLoop(this, zone, j, jl, zoneInfo, instrument) ==
  IF j < jl
  THEN LET presetGenerator == createPresetGenerator_(this, zone, j)
           presetModulator == createPresetModulator_(this, zone, j)
       IN  IF ~presetGenerator.ok \/ ~presetModulator.ok
           THEN [ok |-> FALSE, zoneInfo |-> zoneInfo, instrument |-> instrument]
           ELSE PresetBagLoop(this, zone, j + 1, jl,
                  Append(zoneInfo,
                    [generator |-> presetGenerator.modgen,
                     generatorSequence |-> presetGenerator.modgenInfo,
                     modulator |-> presetModulator.modgen,
                     modulatorSequence |-> presetModulator.modgenInfo]),
                  LinkedInstrument(presetGenerator.modgen, presetModulator.modgen))
  ELSE [ok |-> TRUE, zoneInfo |-> zoneInfo, instrument |-> instrument]

\* bagIndexEnd with the index of the last bag as the bound of the last header
PresetBagIndexEndLastBag(preset, zone, i) ==
  IF i + 1 < Len(preset) THEN preset[i + 2].presetBagIndex ELSE Len(zone) - 1

\* bagIndexEnd of createPreset for the header i
PresetBagIndexEnd(preset, zone, i) ==
  IF i + 1 < Len(preset) THEN preset[i + 2].presetBagIndex ELSE Len(zone)

\* the outer for loop of createPreset; `instrument` is declared outside it
RECURSIVE PresetLoop(_, _, _, _)
PresetLoop(this, i, output, instrument) ==
  LET preset == this["presetHeader"]
      zone == this["presetZone"]
  IN  IF i < Len(preset)
      THEN LET bagIndex == preset[i + 1].presetBagIndex
               bagIndexEnd == PresetBagIndexEnd(preset, zone, i)
               bags == PresetBagLoop(this, zone, bagIndex, bagIndexEnd, << >>, instrument)
           IN  IF ~bags.ok
               THEN [ok |-> FALSE, output |-> output]
               ELSE PresetLoop(this, i + 1,
                      Append(output, [name |-> preset[i + 1].presetName,
                                      info |-> bags.zoneInfo,
                                      header |-> preset[i + 1],
                                      instrument |-> bags.instrument]),
                      bags.instrument)
      ELSE [ok |-> TRUE, output |-> output]

createPreset(this) == PresetLoop(this, 0, << >>, jsUndefined)

\* ------------------------------------------------------------------------
\* parse(): Stream and the record classes of Structs are not part of the
\* sources at hand; they follow the cursor and record layouts of the
\* specification (a read past the end of the buffer fails)
\* ------------------------------------------------------------------------
RECURSIVE TrimNul(_)
TrimNul(str) ==
  IF str # << >> /\ str[Len(str)] = 0 THEN TrimNul(SubSeq(str, 1, Len(str) - 1)) ELSE str

\* Stream.readString(n) at ip
readString(data, ip, n) == TrimNul(subarray(data, ip, ip + n))

\* the width in bytes of the record a factory reads
RecordWidth(type) ==
  CASE type = sPHDR -> 38
    [] type = sINST -> 22
    [] type = sSHDR -> 46
    [] type \in {sPBAG, sIBAG} -> 4
    [] type \in {sPGEN, sIGEN} -> 4
    [] type \in {sPMOD, sIMOD} -> 10

\* GeneratorList.parse / ModulatorList.parse: code at ip, amount at ip + 2
ListRecord(data, ip) ==
  LET code == ReadU16(data, ip)
      key == TableAt(code)
      lo == At(data, ip + 2)
      hi == At(data, ip + 3)
      u == lo + 256 * hi
      amount == IF u >= 32768 THEN u - 65536 ELSE u
  IN  IF key = void0
      THEN [type |-> "unknown",
            value |-> [code |-> code, amount |-> amount, lo |-> lo, hi |-> hi]]
      ELSE IF key \in RangeNames
      THEN [type |-> key, value |-> [lo |-> lo, hi |-> hi]]
      ELSE [type |-> key, value |-> [amount |-> amount]]

\* PresetHeader.parse, PresetBag.parse, ..., SampleHeader.parse at ip
StructParse(type, data, ip) ==
  CASE type = sPHDR ->
         [presetName |-> readString(data, ip, 20),
          preset |-> ReadU16(data, ip + 20),
          bank |-> ReadU16(data, ip + 22),
          presetBagIndex |-> ReadU16(data, ip + 24),
          library |-> ReadU32(data, ip + 26),
          genre |-> ReadU32(data, ip + 30),
          morphology |-> ReadU32(data, ip + 34)]
    [] type = sPBAG ->
         [presetGeneratorIndex |-> ReadU16(data, ip),
          presetModulatorIndex |-> ReadU16(data, ip + 2)]
    [] type = sINST ->
         [instrumentName |-> readString(data, ip, 20),
          instrumentBagIndex |-> ReadU16(data, ip + 20)]
    [] type = sIBAG ->
         [instrumentGeneratorIndex |-> ReadU16(data, ip),
          instrumentModulatorIndex |-> ReadU16(data, ip + 2)]
    [] type \in {sPGEN, sIGEN} -> ListRecord(data, ip)
    [] type \in {sPMOD, sIMOD} -> ListRecord(data, ip + 2)
    [] type = sSHDR ->
         [sampleName |-> readString(data, ip, 20),
          start |-> ReadU32(data, ip + 20),
          end |-> ReadU32(data, ip + 24),
          startLoop |-> ReadU32(data, ip + 28) - ReadU32(data, ip + 20),
          endLoop |-> ReadU32(data, ip + 32) - ReadU32(data, ip + 20),
          sampleRate |-> ReadU32(data, ip + 36),
          originalPitch |-> At(data, ip + 40),
          pitchCorrection |-> ReadI8(data, ip + 41),
          sampleLink |-> ReadU16(data, ip + 42),
          sampleType |-> ReadU16(data, ip + 44)]

\* the while loop of parseChunk: result.push(factory(stream))
RECURSIVE ChunkLoop(_, _, _, _, _)
ChunkLoop(data, ip, size, type, result) ==
  IF ip < size
  THEN IF ip + RecordWidth(type) > Len(data)
       THEN [ok |-> FALSE, msg |-> "out of bounds", result |-> result]
       ELSE ChunkLoop(data, ip + RecordWidth(type), size, type,
                      Append(result, StructParse(type, data, ip)))
  ELSE [ok |-> TRUE, msg |-> "", result |-> result]

\* parseChunk without its check of the chunk type
parseChunkUnchecked(c, data, type) ==
  ChunkLoop(data, c.offset, c.offset + c.size, type, << >>)

\* parseChunk(chunk, data, type, factory)
parseChunk(c, data, type) ==
  IF c.type # type
  THEN [ok |-> FALSE, msg |-> "invalid chunk type", result |-> << >>]
  ELSE ChunkLoop(data, c.offset, c.offset + c.size, type, << >>)

\* the name a record of a table is filtered by
NameOf(type, rec) ==
  CASE type = sPHDR -> rec.presetName
    [] type = sINST -> rec.instrumentName
    [] type = sSHDR -> rec.sampleName

SentinelOf(type) ==
  CASE type = sPHDR -> sEOP
    [] type = sINST -> sEOI
    [] type = sSHDR -> sEOS

\* parsePhdr ... parseShdr: parseChunk, then the filter on the three tables
\* that have a sentinel
parseTable(c, data, type) ==
  LET r == parseChunk(c, data, type)
  IN  IF r.ok /\ type \in {sPHDR, sINST, sSHDR}
      THEN [r EXCEPT !.result =
              SelectSeq(r.result, LAMBDA rec : NameOf(type, rec) # SentinelOf(type))]
      ELSE r

\* getChunkList(chunk, data, expectedType, expectedSignature)
getChunkList(c, data, expectedType, expectedSignature) ==
  LET signature == readString(data, c.offset, 4)
      list == parseRiff(data, c.offset + 4, c.size - 4)
  IN  IF c.type # expectedType
      THEN [ok |-> FALSE, msg |-> "invalid chunk type", chunkList |-> << >>]
      ELSE IF c.offset + 4 > Len(data)
      THEN [ok |-> FALSE, msg |-> "out of bounds", chunkList |-> << >>]
      ELSE IF signature # expectedSignature
      THEN [ok |-> FALSE, msg |-> "invalid signature", chunkList |-> << >>]
      ELSE IF ~list.ok
      THEN [ok |-> FALSE, msg |-> "out of bounds", chunkList |-> << >>]
      ELSE [ok |-> TRUE, msg |-> "", chunkList |-> list.chunkList]

\* the property names of the object parsePdtaList returns, in order
PdtaProperties ==
  << "presetHeader", "presetZone", "presetZoneModulator", "presetZoneGenerator",
     "instrument", "instrumentZone", "instrumentZoneModulator",
     "instrumentZoneGenerator", "sampleHeader" >>

\* adjustSampleData(sample, sampleRate) of parse(): the rate is fixed
RECURSIVE adjustSampleDataFixed(_, _, _)
adjustSampleDataFixed(sample, sampleRate, multiply) ==
  IF sampleRate < 22050
  THEN adjustSampleDataFixed(Duplicate(sample), sampleRate * 2, multiply * 2)
  ELSE [sample |-> sample, multiply |-> multiply]

\* the callback with the header scaled and the sample left as extracted
loadOneNotResampled(header, samplingDataOffset, data) ==
  LET bytes == subarray(data, samplingDataOffset + header.start * 2,
                        samplingDataOffset + header.end * 2)
      sample == Int16Of(bytes)
      adjust == IF header.sampleRate > 0
                THEN adjustSampleDataFixed(sample, header.sampleRate, 1)
                ELSE [sample |-> sample, multiply |-> 1]
  IN  [ok |-> Len(bytes) % 2 = 0,
       sample |-> sample,
       header |-> [header EXCEPT !.sampleRate = @ * adjust.multiply,
                                 !.startLoop = @ * adjust.multiply,
                                 !.endLoop = @ * adjust.multiply]]

\* the callback of loadSample: the sample built for one header, and the
\* header as the callback leaves it
loadOne(header, samplingDataOffset, data) ==
  LET bytes == subarray(data, samplingDataOffset + header.start * 2,
                        samplingDataOffset + header.end * 2)
      sample == Int16Of(bytes)
      adjust == IF header.sampleRate > 0
                THEN adjustSampleDataFixed(sample, header.sampleRate, 1)
                ELSE [sample |-> sample, multiply |-> 1]
  IN  [ok |-> Len(bytes) % 2 = 0,
       sample |-> adjust.sample,
       header |-> [header EXCEPT !.sampleRate = @ * adjust.multiply,
                                 !.startLoop = @ * adjust.multiply,
                                 !.endLoop = @ * adjust.multiply]]

\* loadSample reading from the header of the chunk, not from its payload
loadSampleFromHeader(sampleHeader, samplingDataOffset, data) ==
  LET each == [i \in 1..Len(sampleHeader) |->
                 loadOne(sampleHeader[i], samplingDataOffset - 8, data)]
  IN  [ok |-> \A i \in 1..Len(sampleHeader) : each[i].ok,
       sample |-> [i \in 1..Len(sampleHeader) |-> each[i].sample],
       sampleHeader |-> [i \in 1..Len(sampleHeader) |-> each[i].header]]

\* loadSample(sampleHeader, samplingDataOffset, data)
loadSample(sampleHeader, samplingDataOffset, data) ==
  LET each == [i \in 1..Len(sampleHeader) |->
                 loadOne(sampleHeader[i], samplingDataOffset, data)]
  IN  [ok |-> \A i \in 1..Len(sampleHeader) : each[i].ok,
       sample |-> [i \in 1..Len(sampleHeader) |-> each[i].sample],
       sampleHeader |-> [i \in 1..Len(sampleHeader) |-> each[i].header]]

\* parse(input) run to its end in one evaluation: the checks and the tables
\* in the order of the call, ok FALSE where an Error is thrown
parseResult(data) ==
  LET outer == parseRiff(data, 0, Len(data))
      riff == IF outer.ok /\ Len(outer.chunkList) = 1
              THEN getChunkList(outer.chunkList[1], data, sRIFF, sSFBK)
              ELSE [ok |-> FALSE, msg |-> "wrong chunk length", chunkList |-> << >>]
      sfbk == riff.chunkList
      lists == riff.ok /\ Len(sfbk) = 3
      info == IF lists THEN getChunkList(sfbk[1], data, sLIST, sINFO) ELSE riff
      sdta == IF lists THEN getChunkList(sfbk[2], data, sLIST, sSDTA) ELSE riff
      pdta == IF lists THEN getChunkList(sfbk[3], data, sLIST, sPDTA) ELSE riff
      walked == /\ lists /\ info.ok
                /\ sdta.ok /\ Len(sdta.chunkList) = 1
                /\ pdta.ok /\ Len(pdta.chunkList) = 9
      table == [k \in 1..9 |-> IF walked
                                THEN parseTable(pdta.chunkList[k], data, PdtaTypes[k])
                                ELSE [ok |-> FALSE, msg |-> "", result |-> << >>]]
      tables == walked /\ \A k \in 1..9 : table[k].ok
      loaded == IF tables
                THEN loadSample(table[9].result, sdta.chunkList[1].offset, data)
                ELSE [ok |-> FALSE, sample |-> << >>, sampleHeader |-> << >>]
  IN  [ok |-> tables /\ loaded.ok,
       presetHeader |-> table[1].result,
       instrument |-> table[5].result,
       sampleHeader |-> loaded.sampleHeader,
       sample |-> loaded.sample]

parseNew(buffer, opt) ==
  /\ impl = "parse"
  /\ option = opt
  /\ input = buffer
  /\ pc = "parse"
  /\ chunk = Empty
  /\ self = Empty
  /\ local = Empty
  /\ ret = Empty
  /\ error = ""
  /\ views = << >>

\* parse(): the outer walk and its checks
parse ==
  /\ impl = "parse" /\ pc = "parse"
  /\ LET list == parseRiff(input, 0, Len(input))
     IN  IF ~list.ok
         THEN Throw("out of bounds") /\ UNCHANGED chunk
         ELSE IF Len(list.chunkList) # 1
         THEN Throw("wrong chunk length") /\ UNCHANGED chunk
         ELSE /\ chunk' = Put(chunk, "riff", list.chunkList[1])
              /\ pc' = "parseRiffChunk"
              /\ UNCHANGED error
  /\ UNCHANGED << impl, option, views, input, self, local, ret >>

parseRiffChunk ==
  /\ impl = "parse" /\ pc = "parseRiffChunk"
  /\ LET list == getChunkList(chunk["riff"], input, sRIFF, sSFBK)
     IN  IF ~list.ok
         THEN Throw(list.msg) /\ UNCHANGED chunk
         ELSE IF Len(list.chunkList) # 3
         THEN Throw("invalid sfbk structure") /\ UNCHANGED chunk
         ELSE /\ chunk' = Put(chunk, "sfbk", list.chunkList)
              /\ pc' = "parseInfoList"
              /\ UNCHANGED error
  /\ UNCHANGED << impl, option, views, input, self, local, ret >>

\* parseInfoList: one entry a chunk of the list, named by its tag
parseInfoList ==
  /\ impl = "parse" /\ pc = "parseInfoList"
  /\ LET list == getChunkList(chunk["sfbk"][1], input, sLIST, sINFO)
     IN  IF ~list.ok
         THEN Throw(list.msg) /\ UNCHANGED local
         ELSE /\ local' = Put(local, "info",
                    [i \in 1..Len(list.chunkList) |->
                       [name |-> list.chunkList[i].type,
                        value |-> TrimNul(subarray(input, list.chunkList[i].offset,
                                    list.chunkList[i].offset + list.chunkList[i].size))]])
              /\ pc' = "parseSdtaList"
              /\ UNCHANGED error
  /\ UNCHANGED << impl, option, views, input, chunk, self, ret >>

parseSdtaList ==
  /\ impl = "parse" /\ pc = "parseSdtaList"
  /\ LET list == getChunkList(chunk["sfbk"][2], input, sLIST, sSDTA)
     IN  IF ~list.ok
         THEN Throw(list.msg) /\ UNCHANGED local
         ELSE IF Len(list.chunkList) # 1
         THEN Throw("TODO") /\ UNCHANGED local
         ELSE /\ local' = Put(local, "samplingData", list.chunkList[1])
              /\ pc' = "parsePdtaList"
              /\ UNCHANGED error
  /\ UNCHANGED << impl, option, views, input, chunk, self, ret >>

parsePdtaList ==
  /\ impl = "parse" /\ pc = "parsePdtaList"
  /\ LET list == getChunkList(chunk["sfbk"][3], input, sLIST, sPDTA)
     IN  IF ~list.ok
         THEN Throw(list.msg) /\ UNCHANGED chunk
         ELSE IF Len(list.chunkList) # 9
         THEN Throw("invalid pdta chunk") /\ UNCHANGED chunk
         ELSE /\ chunk' = Put(chunk, "pdta", list.chunkList)
              /\ pc' = "parsePdtaProperty"
              /\ UNCHANGED error
  /\ UNCHANGED << impl, option, views, input, self, local, ret >>

\* the next property of the object parsePdtaList returns: parsePhdr(chunkList[0],
\* data), parsePbag(chunkList[1], data), ... in the order of the literal
parsePdtaProperty ==
  /\ impl = "parse" /\ pc = "parsePdtaProperty"
  /\ LET k == 1 + Cardinality(DOMAIN local \cap { PdtaProperties[i] : i \in 1..9 })
         r == parseTable(chunk["pdta"][k], input, PdtaTypes[k])
     IN  IF ~r.ok
         THEN Throw(r.msg) /\ UNCHANGED local
         ELSE /\ local' = Put(local, PdtaProperties[k], r.result)
              /\ pc' = IF k = 9 THEN "loadSample" ELSE "parsePdtaProperty"
              /\ UNCHANGED error
  /\ UNCHANGED << impl, option, views, input, chunk, self, ret >>

\* the return of parse(): {...result, sample: loadSample(...)}
parseReturn ==
  /\ impl = "parse" /\ pc = "loadSample"
  /\ LET r == loadSample(local["sampleHeader"], local["samplingData"].offset, input)
     IN  IF ~r.ok
         THEN Throw("invalid typed array length") /\ UNCHANGED << ret, views >>
         ELSE /\ ret' = Put(Put(local, "sampleHeader", r.sampleHeader), "sample", r.sample)
              /\ views' = SampleViews(r.sample, r.sampleHeader, local["samplingData"].offset)
              /\ pc' = "returned"
              /\ UNCHANGED error
  /\ UNCHANGED << impl, option, input, chunk, self, local >>

\* a 16-bit pattern read as a two's-complement integer
Signed16(u) == IF u >= 32768 THEN u - 65536 ELSE u

\* ------------------------------------------------------------------------
\* The caller writes to a sample it was handed
\* ------------------------------------------------------------------------

\* samples[i][0] = 9 after the decoder returned: the write reaches the
\* ArrayBuffer the sample is a view of, and so every view of those bytes
WriteSample ==
  /\ pc \in {"parsed", "returned"}
  /\ LET samples == IF impl = "Parser" THEN self["sample"] ELSE ret["sample"]
     IN  \E i \in 1..Len(samples) :
           /\ samples[i] # << >>
           /\ LET written == [j \in 1..Len(samples) |->
                               IF views[j] = views[i] /\ samples[j] # << >>
                               THEN [samples[j] EXCEPT ![1] = 9]
                               ELSE samples[j]]
              IN  /\ IF impl = "Parser"
                     THEN self' = Put(self, "sample", written) /\ UNCHANGED ret
                     ELSE ret' = Put(ret, "sample", written) /\ UNCHANGED self
                  /\ input' = IF views[i].buffer = 0
                              THEN [input EXCEPT ![views[i].byteOffset + 1] = 9,
                                                 ![views[i].byteOffset + 2] = 0]
                              ELSE input
  /\ pc' = "written"
  /\ UNCHANGED << impl, option, views, chunk, local, error >>

\* ------------------------------------------------------------------------
\* Decoding a file with either decoder
\* ------------------------------------------------------------------------
Init == \E buffer \in Files : ParserNew(buffer, Empty) \/ parseNew(buffer, Empty)

\* the steps of a decode
Decode ==
  \/ Parser_parse
  \/ Parser_parseRiffChunk
  \/ Parser_parseInfoList
  \/ Parser_parseSdtaList
  \/ Parser_parsePdtaList
  \/ Parser_parsePhdr
  \/ Parser_parsePbag
  \/ Parser_parsePmod
  \/ Parser_parsePgen
  \/ Parser_parseInst
  \/ Parser_parseIbag
  \/ Parser_parseImod
  \/ Parser_parseIgen
  \/ Parser_parseShdr
  \/ Parser_parseReturn
  \/ parse
  \/ parseRiffChunk
  \/ parseInfoList
  \/ parseSdtaList
  \/ parsePdtaList
  \/ parsePdtaProperty
  \/ parseReturn

Next == Decode \/ WriteSample

Spec == Init /\ [][Next]_vars

\* ------------------------------------------------------------------------
\* Decoding files whose sample header varies
\* ------------------------------------------------------------------------

\* the frames of the sample data; every index of a header is at most this
MaxFrames == 3

\* native rates: none, a quarter / half of 44100, and 22050 itself
SampleRates == {0, 11025, 22050}

\* the options a caller passes: none, or a sample rate of 44100
Options == { Empty, [x \in {"sampleRate"} |-> 44100] }

\* one shdr record (terminal: the record named EOS follows it); the loop
\* points may lie outside start .. end, and end may precede start
SampleConfigs ==
  { c \in [start : 0..MaxFrames, end : 0..MaxFrames, startLoop : 0..MaxFrames,
           endLoop : 0..MaxFrames, sampleRate : SampleRates, terminal : BOOLEAN] :
      c.startLoop <= c.endLoop /\ (c.start <= c.end \/ c.startLoop = c.endLoop) }

SampleTables(c) ==
  [k \in 1..9 |->
     IF k = 9
     THEN EncShdr(<< 83, 49 >>, c.start, c.end, c.startLoop, c.endLoop, c.sampleRate)
            \o (IF c.terminal THEN EncShdr(sEOS, 0, 0, 0, 0, 0) ELSE << >>)
     ELSE PdtaPayload(<< "s" >>, k)]

SampleFile(c) == FileBytes("ok", SampleTables(c), SmplPayload(MaxFrames))

InitSample ==
  \E c \in SampleConfigs, opt \in Options :
    ParserNew(SampleFile(c), opt) \/ parseNew(SampleFile(c), opt)

SpecSample == InitSample /\ [][Next]_vars

\* ------------------------------------------------------------------------
\* Properties of decoding a file
\* ------------------------------------------------------------------------

\* the call has finished with a result
Decoded == pc \in {"parsed", "returned"}

\* the array the caller finds under a property name after a decode
Returned(property) == IF impl = "Parser" THEN self[property] ELSE ret[property]

\* the records a table chunk holds, and the name of its last record
RecordCount(c) == c.size \div RecordWidth(c.type)
LastName(c) ==
  TrimNul(subarray(input, c.offset + c.size - RecordWidth(c.type),
                   c.offset + c.size - RecordWidth(c.type) + 20))

\* C1: after a successful decode the presetHeader, instrument and sampleHeader
\* arrays hold no sentinel record: for a phdr / inst / shdr chunk whose last
\* record is named EOP / EOI / EOS the returned array has one element fewer
\* than the chunk has records and no element of that name, and the sample
\* array is as long as sampleHeader.
C1_SentinelDropped ==
  Decoded =>
    /\ \A k \in {1, 5, 9} :
         LET c == chunk["pdta"][k]
             array == Returned(PdtaProperties[k])
         IN  (RecordCount(c) >= 1 /\ LastName(c) = SentinelOf(c.type)) =>
               /\ Len(array) = RecordCount(c) - 1
               /\ \A i \in 1..Len(array) :
                    TrimNul(NameOf(c.type, array[i])) # SentinelOf(c.type)
    /\ Len(Returned("sample")) = Len(Returned("sampleHeader"))

\* the fixed topology, read off the buffer with the chunk walker
ListOf(data, c, type, signature) ==
  IF c.type = type /\ fromCharCode4(data, c.offset) = signature
  THEN parseRiff(data, c.offset + 4, c.size - 4)
  ELSE [ok |-> FALSE, chunkList |-> << >>]

TopologyOK(data) ==
  LET outer == parseRiff(data, 0, Len(data))
  IN  /\ outer.ok /\ Len(outer.chunkList) = 1
      /\ LET sfbk == ListOf(data, outer.chunkList[1], sRIFF, sSFBK)
         IN  /\ sfbk.ok /\ Len(sfbk.chunkList) = 3
             /\ ListOf(data, sfbk.chunkList[1], sLIST, sINFO).ok
             /\ LET sdta == ListOf(data, sfbk.chunkList[2], sLIST, sSDTA)
                IN  sdta.ok /\ Len(sdta.chunkList) = 1
             /\ LET pdta == ListOf(data, sfbk.chunkList[3], sLIST, sPDTA)
                IN  /\ pdta.ok /\ Len(pdta.chunkList) = 9
                    /\ \A k \in 1..9 : pdta.chunkList[k].type = PdtaTypes[k]

\* C2: an input that breaks the fixed topology at any checkpoint (outer walk,
\* sfbk, INFO / sdta / pdta lists, the count and the order of the nine pdta
\* subchunks) never produces a result, and the call that ends on it ends by
\* throwing an Error.
C2_TopologyEnforced ==
  ~TopologyOK(input) =>
    /\ ~Decoded
    /\ pc \notin {"parseReturn", "loadSample"}
    /\ (pc = "thrown" => error # "")

\* a decode has thrown on the ninth pdta subchunk, the other eight being right
C2_Witness ==
  /\ pc = "thrown"
  /\ "pdta" \in DOMAIN chunk
  /\ chunk["pdta"][9].type # sSHDR
  /\ \A k \in 1..8 : chunk["pdta"][k].type = PdtaTypes[k]
  /\ ~TopologyOK(input)

\* the properties that hold decoded data
DecodedProperties ==
  { PdtaProperties[k] : k \in 1..9 } \cup {"sample", "samplingData", "info"}

\* C3: decoding is all-or-nothing: after a decode has failed, the caller can
\* observe no partially decoded data, in the Parser instance or in a result.
C3_AllOrNothing ==
  pc = "thrown" => (DOMAIN self \cap DecodedProperties = {} /\ ret = Empty)

\* ------------------------------------------------------------------------
\* Properties of the decoded samples
\* ------------------------------------------------------------------------

\* the fields of the first shdr record and the frames of the sample data,
\* taken from the bytes of the buffer
RawU32(o) == input[o + 1] + 256 * input[o + 2] + 65536 * input[o + 3]
ShdrOffset == chunk["pdta"][9].offset
RawStart == RawU32(ShdrOffset + 20)
RawEnd == RawU32(ShdrOffset + 24)
RawStartLoop == RawU32(ShdrOffset + 28)
RawEndLoop == RawU32(ShdrOffset + 32)
RawSampleRate == RawU32(ShdrOffset + 36)
Frame(k) ==
  Signed16(input[Returned("samplingData").offset + 2 * k + 1]
             + 256 * input[Returned("samplingData").offset + 2 * k + 2])

\* the threshold the caller configured, 22050 when none
Threshold ==
  IF "sampleRate" \in DOMAIN option /\ option["sampleRate"] # 0
  THEN option["sampleRate"] ELSE 22050

\* the smallest power of two m, from m on, with r * m >= T (r > 0)
RECURSIVE Factor(_, _, _)
Factor(r, T, m) == IF r * m >= T THEN m ELSE Factor(r, T, 2 * m)

\* the first returned header and buffer are those of the first record
\* resampled by the factor m
ResampledBy(m) ==
  LET header == Returned("sampleHeader")[1]
      buffer == Returned("sample")[1]
  IN  /\ header.sampleRate = RawSampleRate * m
      /\ Len(buffer) = m * Max(0, RawEnd - RawStart)
      /\ \A i \in 0..(RawEnd - RawStart - 1) : \A j \in 0..(m - 1) :
           buffer[m * i + j + 1] = Frame(RawStart + i)
      /\ header.startLoop = (RawStartLoop - RawStart) * m
      /\ header.endLoop = (RawEndLoop - RawStart) * m

\* C12: for a sample header of native rate r > 0 and the threshold T the
\* caller configured (22050 when none), the decoder applies the smallest
\* power of two m with r * m >= T: the returned sampleRate is r * m, the
\* returned buffer repeats every extracted frame m times, and startLoop and
\* endLoop are multiplied by m.
C12_ResampleFactor ==
  (Decoded /\ RawSampleRate > 0) => ResampledBy(Factor(RawSampleRate, Threshold, 1))

\* the same for the Parser class alone, and for parse() with 22050 in place
\* of the configured threshold
ResampleOfParser ==
  (Decoded /\ impl = "Parser" /\ RawSampleRate > 0) =>
    ResampledBy(Factor(RawSampleRate, Threshold, 1))
ResampleOfParse ==
  (Decoded /\ impl = "parse" /\ RawSampleRate > 0) =>
    ResampledBy(Factor(RawSampleRate, 22050, 1))

\* a field of the shdr record i (from 1), taken from the bytes of the buffer
Raw(i, field) == RawU32(ShdrOffset + 46 * (i - 1) + field)

\* the factor the decoder applied to the returned header i
AppliedFactor(i) ==
  IF Raw(i, 36) > 0 THEN Returned("sampleHeader")[i].sampleRate \div Raw(i, 36) ELSE 1

\* C13: every returned sample header has startLoop = (raw startLoop - start)
\* * m and endLoop = (raw endLoop - start) * m, the raw values being those of
\* the shdr record and m the factor applied to that sample (1 when it was
\* not resampled).
C13_LoopRebased ==
  Decoded =>
    \A i \in 1..Len(Returned("sampleHeader")) :
      LET header == Returned("sampleHeader")[i]
          m == AppliedFactor(i)
      IN  /\ header.sampleRate = Raw(i, 36) * m
          /\ header.startLoop = (Raw(i, 28) - Raw(i, 20)) * m
          /\ header.endLoop = (Raw(i, 32) - Raw(i, 20)) * m

\* the Parser returned a header resampled by 2 whose sample does not start
\* at frame 0 and whose loop starts after it
C13_Witness ==
  /\ pc = "parsed"
  /\ RawStart > 0 /\ RawStartLoop > RawStart /\ RawEndLoop > RawStartLoop
  /\ AppliedFactor(1) = 2
  /\ self["sampleHeader"][1].startLoop = 2 * (RawStartLoop - RawStart)

\* the record i keeps its loop inside its sample, and its sample inside the
\* sample data
WellFormedLoop(i) ==
  /\ Raw(i, 20) <= Raw(i, 28) /\ Raw(i, 28) <= Raw(i, 32) /\ Raw(i, 32) <= Raw(i, 24)
  /\ 2 * Raw(i, 24) <= Returned("samplingData").size

\* C14: for every shdr record with start <= startLoop <= endLoop <= end
\* whose sample bytes lie inside the buffer, the returned header and buffer
\* satisfy 0 <= startLoop <= endLoop <= sample.length, resampled or not.
C14_LoopInsideSample ==
  Decoded =>
    \A i \in 1..Len(Returned("sampleHeader")) :
      WellFormedLoop(i) =>
        LET header == Returned("sampleHeader")[i]
        IN  /\ 0 <= header.startLoop
            /\ header.startLoop <= header.endLoop
            /\ header.endLoop <= Len(Returned("sample")[i])

\* parse() returned a resampled sample that does not start at frame 0 and
\* whose loop ends at its last frame
C14_Witness ==
  /\ pc = "returned"
  /\ WellFormedLoop(1)
  /\ RawStart > 0 /\ RawStartLoop < RawEndLoop /\ RawEndLoop = RawEnd
  /\ AppliedFactor(1) = 2
  /\ ret["sampleHeader"][1].endLoop = Len(ret["sample"][1])

\* the returned buffer i holds the frames start .. end - 1 of the sample
\* data, each as often as the factor applied, and `frames` of them
ExtractedFrom(i, frames) ==
  LET buffer == Returned("sample")[i]
      m == AppliedFactor(i)
  IN  /\ Len(buffer) = m * frames
      /\ \A k \in 0..(frames - 1) : \A j \in 0..(m - 1) :
           buffer[m * k + j + 1] = Frame(Raw(i, 20) + k)

SamplesChanged ==
  { j \in 1..Len(Returned("sample")) : Returned("sample")'[j] # Returned("sample")[j] }

\* C16: no step of a decode, successful or failed, changes a byte of the
\* input buffer, and every returned sample is a copy of its own: a later
\* write to an element of a returned sample changes neither the input
\* buffer nor any other returned sample.
C16_InputAndCopiesApart ==
  [][/\ input' = input
     /\ pc' = "written" => Cardinality(SamplesChanged) = 1]_vars

\* the caller wrote to one of two samples that were not doubled
C16_Witness ==
  /\ pc = "written"
  /\ Len(Returned("sample")) >= 2
  /\ \A j \in 1..2 : Returned("sample")[j] # << >>
  /\ \E j \in 1..2 : Returned("sample")[j][1] = 9

\* ------------------------------------------------------------------------
\* Decoding to its end: a call that has started keeps running
\* ------------------------------------------------------------------------

\* sample headers of every rate, 0 included, with and without a threshold
\* passed; the loop points play no part
LiveConfigs == { c \in SampleConfigs : c.startLoop = 0 /\ c.endLoop = 0 }

InitLive ==
  \/ Init
  \/ \E c \in LiveConfigs, opt \in Options :
       ParserNew(SampleFile(c), opt) \/ parseNew(SampleFile(c), opt)

\* the call returned or threw
Terminated == pc \in {"parsed", "returned", "thrown", "written"}

\* the positions of a call
Positions ==
  { "parse", "parseRiffChunk", "parseInfoList", "parseSdtaList", "parsePdtaList",
    "parsePhdr", "parsePbag", "parsePmod", "parsePgen", "parseInst", "parseIbag",
    "parseImod", "parseIgen", "parseShdr", "parseReturn", "parsePdtaProperty",
    "output", "loadSample", "parsed", "returned", "thrown", "written" }

\* where the call stands: the method it is in and the tables parse() has
\* decoded so far (parsePdtaProperty is entered once a table)
Progress == << pc, DOMAIN local >>

\* the running call takes a step: it moves to a position, and parse() keeps
\* its tables or adds one; every step of Decode is such a step, and a call
\* that has not ended is at the guard of one method
Scheduled ==
  /\ ~Terminated
  /\ pc' \in Positions
  /\ (local' = local \/ DOMAIN local' # DOMAIN local)

\* the call is synchronous: once entered it takes its next step
SpecLive == InitLive /\ [][Next]_vars /\ WF_Progress(Scheduled)

NameTrimmed(rec) ==
  [f \in DOMAIN rec |->
     IF f \in {"presetName", "instrumentName", "sampleName"} THEN TrimNul(rec[f]) ELSE rec[f]]

Trimmed(array) == [i \in 1..Len(array) |-> NameTrimmed(array[i])]

\* new Parser(input).parse() succeeded, and parse(input) succeeds too
BothSucceed ==
  /\ impl = "Parser" /\ pc = "parsed" /\ option = Empty
  /\ parseResult(input).ok

\* C20: on every buffer both decoders accept with default options,
\* Parser.parse() and parse() yield equal presetHeader, instrument and
\* sampleHeader arrays (as long, with the same field values, startLoop,
\* endLoop and sampleRate among them) and equal sample buffers.
C20_SameResult ==
  BothSucceed =>
    /\ Trimmed(self["presetHeader"]) = parseResult(input).presetHeader
    /\ Trimmed(self["instrument"]) = parseResult(input).instrument
    /\ Trimmed(self["sampleHeader"]) = parseResult(input).sampleHeader
    /\ self["sample"] = parseResult(input).sample

\* the indices of the records of an array of the Parser not named as the
\* terminal record of their table
Kept(array, field, sentinel) ==
  { i \in 1..Len(array) : TrimNul(array[i][field]) # sentinel }

RECURSIVE Pick(_, _, _)
Pick(array, keep, i) ==
  IF i > Len(array) THEN << >>
  ELSE (IF i \in keep THEN << array[i] >> ELSE << >>) \o Pick(array, keep, i + 1)

\* the results are equal once the terminal records the Parser keeps, and
\* their samples, are left out
SameButSentinels ==
  BothSucceed =>
    LET ph == self["presetHeader"]
        inst == self["instrument"]
        sh == self["sampleHeader"]
    IN  /\ Trimmed(Pick(ph, Kept(ph, "presetName", sEOP), 1)) = parseResult(input).presetHeader
        /\ Trimmed(Pick(inst, Kept(inst, "instrumentName", sEOI), 1)) = parseResult(input).instrument
        /\ Trimmed(Pick(sh, Kept(sh, "sampleName", sEOS), 1)) = parseResult(input).sampleHeader
        /\ Pick(self["sample"], Kept(sh, "sampleName", sEOS), 1) = parseResult(input).sample

\* parse() as its methods run it ends as parseResult says
ParseAsResult ==
  /\ (impl = "parse" /\ pc = "thrown") => ~parseResult(input).ok
  /\ (impl = "parse" /\ pc = "returned") =>
       /\ parseResult(input).ok
       /\ \A f \in {"presetHeader", "instrument", "sampleHeader", "sample"} :
            ret[f] = parseResult(input)[f]

\* ------------------------------------------------------------------------
\* Resolving zones on a Parser that has parsed a file
\* ------------------------------------------------------------------------

\* the offset of the payload of the smpl chunk in a file of FileBytes
SmplOffset == 8 + 4 + Len(InfoList("ok")) + 8 + 4 + 8

\* the Parser instance after parse() of the file with these tables
ParsedSelf(tables, smpl) ==
  LET whole(k) == [type |-> PdtaTypes[k], size |-> Len(tables[k]), offset |-> 0]
      shdr == ShdrLoop(smpl \o tables[9], Len(smpl), Len(smpl) + Len(tables[9]),
                       0, DefaultSampleRate, << >>, << >>)
  IN  [x \in {"input", "sampleRate", "samplingData", "sample"}
             \cup { PdtaProperties[k] : k \in 1..9 } |->
         CASE x = "input" -> "null"
           [] x = "sampleRate" -> DefaultSampleRate
           [] x = "samplingData" ->
                [type |-> sSMPL, size |-> Len(smpl), offset |-> SmplOffset]
           [] x = "presetHeader" -> PhdrLoop(tables[1], 0, Len(tables[1]), << >>)
           [] x = "presetZone" -> PbagLoop(tables[2], 0, Len(tables[2]), << >>)
           [] x = "presetZoneModulator" -> parseModulator(tables[3], whole(3))
           [] x = "presetZoneGenerator" -> parseGenerator(tables[4], whole(4))
           [] x = "instrument" -> InstLoop(tables[5], 0, Len(tables[5]), << >>)
           [] x = "instrumentZone" -> IbagLoop(tables[6], 0, Len(tables[6]), << >>)
           [] x = "instrumentZoneModulator" -> parseModulator(tables[7], whole(7))
           [] x = "instrumentZoneGenerator" -> parseGenerator(tables[8], whole(8))
           [] x = "sampleHeader" -> shdr.sampleHeader
           [] x = "sample" -> shdr.sample]

ParsedInit(tables, smpl) ==
  /\ impl = "Parser"
  /\ option = Empty
  /\ input = FileBytes("ok", tables, smpl)
  /\ pc = "parsed"
  /\ chunk = Empty
  /\ self = ParsedSelf(tables, smpl)
  /\ local = Empty
  /\ ret = Empty
  /\ error = ""
  /\ views = << >>

\* a call of createPreset(): its return value, or that it threw
Parser_createPreset ==
  /\ impl = "Parser" /\ pc = "parsed"
  /\ ret' = Put(ret, "createPreset", createPreset(self))
  /\ UNCHANGED << impl, option, views, input, pc, chunk, self, local, error >>

\* a call of createInstrument(): its return value, or that it threw
Parser_createInstrument ==
  /\ impl = "Parser" /\ pc = "parsed"
  /\ ret' = Put(ret, "createInstrument", createInstrument(self))
  /\ UNCHANGED << impl, option, views, input, pc, chunk, self, local, error >>

InitZone ==
  \E cfg \in ZoneConfigs : \E tables \in { ZoneTables(cfg) } : ParsedInit(tables, << >>)

NextZone == Parser_createPreset \/ Parser_createInstrument

SpecZone == InitZone /\ [][NextZone]_vars

\* ------------------------------------------------------------------------
\* Properties of the resolved zones
\* ------------------------------------------------------------------------

\* the call returned (it did not throw)
PresetsReturned == "createPreset" \in DOMAIN ret /\ ret["createPreset"].ok
InstrumentsReturned == "createInstrument" \in DOMAIN ret /\ ret["createInstrument"].ok
Presets == ret["createPreset"].output
Instruments == ret["createInstrument"].output

\* list.slice(a, b) for 0 <= a
Slice(list, a, b) ==
  IF Min(b, Len(list)) <= a THEN << >> ELSE SubSeq(list, a + 1, Min(b, Len(list)))

\* the half-open range of entry i (from 1) of a table, by the index its
\* records hold under `field`; limit bounds the last entry
RangeStart(table, field, i) == table[i][field]
RangeEnd(table, field, i, limit) ==
  IF i < Len(table) THEN table[i + 1][field] ELSE limit

\* the zone the bag-level resolvers build for the bag j (from 0)
PresetZoneOf(j) ==
  LET g == createPresetGenerator_(self, self["presetZone"], j)
      m == createPresetModulator_(self, self["presetZone"], j)
  IN  [generator |-> g.modgen, generatorSequence |-> g.modgenInfo,
       modulator |-> m.modgen, modulatorSequence |-> m.modgenInfo]
InstrumentZoneOf(j) ==
  LET g == createInstrumentGenerator_(self, self["instrumentZone"], j)
      m == createInstrumentModulator_(self, self["instrumentZone"], j)
  IN  [generator |-> g.modgen, generatorSequence |-> g.modgenInfo,
       modulator |-> m.modgen, modulatorSequence |-> m.modgenInfo]

\* entity i of the output has one zone for each bag of the range of header
\* i, in ascending order
ZonePerBag(output, H, B, field, ZoneOf(_)) ==
  /\ Len(output) = Len(H)
  /\ \A i \in 1..Len(H) :
       LET lo == RangeStart(H, field, i)
           hi == RangeEnd(H, field, i, Len(B))
       IN  /\ Len(output[i].info) = Max(0, hi - lo)
           /\ \A k \in 1..Len(output[i].info) : output[i].info[k] = ZoneOf(lo + k - 1)

\* C4: createPreset (createInstrument) emits, for every header i, exactly
\* one zone per bag j of [H[i].bagIndex, H[i+1].bagIndex), in ascending j;
\* for the last header the upper bound is the number of bags.
C4_ZonePerBag ==
  /\ PresetsReturned =>
       ZonePerBag(Presets, self["presetHeader"], self["presetZone"],
                  "presetBagIndex", PresetZoneOf)
  /\ InstrumentsReturned =>
       ZonePerBag(Instruments, self["instrument"], self["instrumentZone"],
                  "instrumentBagIndex", InstrumentZoneOf)

\* both calls returned, and the first and the last entity have a zone each
C4_Witness ==
  /\ PresetsReturned /\ InstrumentsReturned
  /\ Len(Presets) = MaxHeaders /\ Len(Instruments) = MaxHeaders
  /\ Len(Presets[1].info) >= 1 /\ Len(Presets[MaxHeaders].info) >= 1
  /\ Len(Instruments[1].info) >= 1 /\ Len(Instruments[MaxHeaders].info) >= 1

\* the zones of the output, each with the number (from 1) of its bag
ZonesOf(output, H, field) ==
  UNION { { [zone |-> output[i].info[k], bag |-> RangeStart(H, field, i) + k] :
              k \in 1..Len(output[i].info) } : i \in 1..Len(output) }
PresetZones == ZonesOf(Presets, self["presetHeader"], "presetBagIndex")
InstrumentZones == ZonesOf(Instruments, self["instrument"], "instrumentBagIndex")

\* the records of the flat list that the indices of bag j (from 1) delimit
RangeOf(B, field, j, list) ==
  Slice(list, RangeStart(B, field, j), RangeEnd(B, field, j, Len(list)))
PresetGeneratorRange(j) ==
  RangeOf(self["presetZone"], "presetGeneratorIndex", j, self["presetZoneGenerator"])
PresetModulatorRange(j) ==
  RangeOf(self["presetZone"], "presetModulatorIndex", j, self["presetZoneModulator"])
InstrumentGeneratorRange(j) ==
  RangeOf(self["instrumentZone"], "instrumentGeneratorIndex", j,
          self["instrumentZoneGenerator"])
InstrumentModulatorRange(j) ==
  RangeOf(self["instrumentZone"], "instrumentModulatorIndex", j,
          self["instrumentZoneModulator"])

\* C5: for each of the four bag-level resolvers and every bag j, the record
\* sequence of the zone of j is the slice [B[j].index, B[j+1].index) of the
\* flat record list, the length of the list bounding the last bag.
C5_RecordSlice ==
  /\ PresetsReturned =>
       \A z \in PresetZones :
         /\ z.zone.generatorSequence = PresetGeneratorRange(z.bag)
         /\ z.zone.modulatorSequence = PresetModulatorRange(z.bag)
  /\ InstrumentsReturned =>
       \A z \in InstrumentZones :
         /\ z.zone.generatorSequence = InstrumentGeneratorRange(z.bag)
         /\ z.zone.modulatorSequence = InstrumentModulatorRange(z.bag)

\* the three resolvers that take both bounds from the indices of their own
\* table follow the slice
SliceOfOwnIndex ==
  /\ PresetsReturned =>
       \A z \in PresetZones :
         /\ z.zone.generatorSequence = PresetGeneratorRange(z.bag)
         /\ z.zone.modulatorSequence = PresetModulatorRange(z.bag)
  /\ InstrumentsReturned =>
       \A z \in InstrumentZones :
         z.zone.generatorSequence = InstrumentGeneratorRange(z.bag)

\* a record whose code the table has no name for carries its code
IsUnrecognized(info) == "code" \in DOMAIN info.value

RECURSIVE ValuesOf(_)
ValuesOf(records) ==
  IF records = << >> THEN << >>
  ELSE << Head(records).value >> \o ValuesOf(Tail(records))

\* the map holds the unrecognized records of the range in its `unknown`
\* list, in order, and has no key other than `unknown` and generator names
UnknownKept(map, range) ==
  /\ map["unknown"] = ValuesOf(SelectSeq(range, IsUnrecognized))
  /\ DOMAIN map \subseteq {"unknown"} \cup KnownNames

\* C9: when the record range of a zone has k records with unrecognized
\* codes, the merged map of the zone has an `unknown` list of length k with
\* the raw values of those records in range order; none is overwritten by a
\* later one or stored under another key.
C9_UnknownAccumulate ==
  /\ PresetsReturned =>
       \A z \in PresetZones :
         /\ UnknownKept(z.zone.generator, PresetGeneratorRange(z.bag))
         /\ UnknownKept(z.zone.modulator, PresetModulatorRange(z.bag))
  /\ InstrumentsReturned =>
       \A z \in InstrumentZones :
         /\ UnknownKept(z.zone.generator, InstrumentGeneratorRange(z.bag))
         /\ UnknownKept(z.zone.modulator, InstrumentModulatorRange(z.bag))

\* the records of the range that have the type n
OfType(range, n) == SelectSeq(range, LAMBDA info : info.type = n)

\* the map holds under every generator name the value of the last record of
\* that name in the range, and the seeded keyRange when the range has no
\* keyRange record
LastWins(map, range) ==
  /\ \A n \in KnownNames :
       LET records == OfType(range, n)
       IN  IF records # << >>
           THEN n \in DOMAIN map /\ map[n] = records[Len(records)].value
           ELSE n \in DOMAIN map => n = "keyRange"
  /\ (map["keyRange"] = [lo |-> 0, hi |-> 127]) <=> (OfType(range, "keyRange") = << >>)

\* C10: in the merged generator (or modulator) map of a zone the value under
\* a known name n is the value of the last record of type n in the record
\* range of the zone; the seeded keyRange {lo: 0, hi: 127} is kept if and
\* only if the range has no keyRange record.
C10_LastWins ==
  /\ PresetsReturned =>
       \A z \in PresetZones :
         /\ LastWins(z.zone.generator, PresetGeneratorRange(z.bag))
         /\ LastWins(z.zone.modulator, PresetModulatorRange(z.bag))
  /\ InstrumentsReturned =>
       \A z \in InstrumentZones :
         /\ LastWins(z.zone.generator, InstrumentGeneratorRange(z.bag))
         /\ LastWins(z.zone.modulator, InstrumentModulatorRange(z.bag))

\* the merge itself: every map follows the record sequence of its own zone
MergeFollowsSequence ==
  /\ PresetsReturned =>
       \A z \in PresetZones :
         /\ LastWins(z.zone.generator, z.zone.generatorSequence)
         /\ LastWins(z.zone.modulator, z.zone.modulatorSequence)
  /\ InstrumentsReturned =>
       \A z \in InstrumentZones :
         /\ LastWins(z.zone.generator, z.zone.generatorSequence)
         /\ LastWins(z.zone.modulator, z.zone.modulatorSequence)

\* the generator maps of the returned zones whose generator range is empty
EmptyRangeGenerators ==
  (IF PresetsReturned
   THEN { z.zone.generator : z \in { y \in PresetZones : PresetGeneratorRange(y.bag) = << >> } }
   ELSE {})
  \cup
  (IF InstrumentsReturned
   THEN { z.zone.generator :
            z \in { y \in InstrumentZones : InstrumentGeneratorRange(y.bag) = << >> } }
   ELSE {})

\* C11 as stated: the generator map of a zone whose generator range is empty
\* has the key keyRange with the value {lo: 0, hi: 127} and no other key.
C11_OnlyKeyRange ==
  \A map \in EmptyRangeGenerators :
    /\ DOMAIN map = {"keyRange"}
    /\ map["keyRange"] = [lo |-> 0, hi |-> 127]

\* C11, with the list the map is seeded with: the generator map of a zone
\* whose generator range is empty has the key keyRange with the value
\* {lo: 0, hi: 127}, the key unknown with an empty list, and no other key.
C11_EmptyRangeMap ==
  \A map \in EmptyRangeGenerators :
    /\ DOMAIN map = {"keyRange", "unknown"}
    /\ map["keyRange"] = [lo |-> 0, hi |-> 127]
    /\ map["unknown"] = << >>

\* a preset zone and an instrument zone with an empty generator range were
\* resolved
C11_Witness ==
  /\ PresetsReturned /\ InstrumentsReturned
  /\ \E z \in PresetZones : PresetGeneratorRange(z.bag) = << >>
  /\ \E z \in InstrumentZones : InstrumentGeneratorRange(z.bag) = << >>

\* the presets of the output that have a zone, each with its last zone: the
\* link createPreset returns for a preset is the one of the last zone resolved
LastZones ==
  { [preset |-> Presets[i], zone |-> Presets[i].info[Len(Presets[i].info)]] :
      i \in { k \in 1..Len(Presets) : Presets[k].info # << >> } }

HasInstrument(map) == "instrument" \in DOMAIN map

\* C18: the linked instrument of a preset zone is the amount of the
\* `instrument` entry of its merged generator map when there is one, else the
\* amount of the `instrument` entry of its merged modulator map when there is
\* one, else null.
C18_LinkedInstrument ==
  PresetsReturned =>
    \A p \in LastZones :
      /\ HasInstrument(p.zone.generator) =>
           p.preset.instrument = jsNumber(p.zone.generator["instrument"].amount)
      /\ ~HasInstrument(p.zone.generator) /\ HasInstrument(p.zone.modulator) =>
           p.preset.instrument = jsNumber(p.zone.modulator["instrument"].amount)
      /\ ~HasInstrument(p.zone.generator) /\ ~HasInstrument(p.zone.modulator) =>
           p.preset.instrument = jsNull

\* one zone has the entry in both maps with different amounts, another in
\* neither
C18_Witness ==
  /\ PresetsReturned
  /\ \E p \in LastZones :
       /\ HasInstrument(p.zone.generator) /\ HasInstrument(p.zone.modulator)
       /\ p.zone.generator["instrument"].amount # p.zone.modulator["instrument"].amount
  /\ \E p \in LastZones :
       ~HasInstrument(p.zone.generator) /\ ~HasInstrument(p.zone.modulator)

\* a zone has the entry in its modulator map only
C18_ModulatorOnly ==
  /\ PresetsReturned
  /\ \E p \in LastZones :
       ~HasInstrument(p.zone.generator) /\ HasInstrument(p.zone.modulator)

\* C21: the instrument createPreset reports for a preset depends on the
\* zones of that preset alone: a preset with no bag in its range reports no
\* instrument (null or undefined), whichever presets come before it.
C21_OwnZonesOnly ==
  PresetsReturned =>
    \A i \in 1..Len(Presets) :
      Presets[i].info = << >> => Presets[i].instrument \in {jsNull, jsUndefined}

\* a preset with no zone of its own reports the instrument linked by the
\* last zone of a preset before it
StaleInstrument ==
  /\ PresetsReturned
  /\ \E i \in 2..Len(Presets) :
       /\ Presets[i].info = << >>
       /\ Presets[i - 1].info # << >>
       /\ Presets[i].instrument = Presets[i - 1].instrument
       /\ Presets[i].instrument.js = "number"

\* what holds of the field: a preset with no zone reports what the preset
\* before it reported, and the first preset undefined
InstrumentCarriedOver ==
  PresetsReturned =>
    \A i \in 1..Len(Presets) :
      Presets[i].info = << >> =>
        Presets[i].instrument = (IF i = 1 THEN jsUndefined ELSE Presets[i - 1].instrument)

\* ------------------------------------------------------------------------
\* parseGenerator / parseModulator applied to one chunk of records
\* ------------------------------------------------------------------------

\* the record codes tried are 0..MaxCode and a few 16-bit codes above
MaxCode == 64
\* the records of the chunk
MaxChunkRecords == 2

Codes == 0..MaxCode \cup {255, 256, 32768, 65535}
AmountBytes == {0, 1, 2, 127, 128, 255}

\* a chunk of n records with this code and these amount bytes
GeneratorChunk(code, b0, b1, n) ==
  EncChunk(sPGEN, Concat([i \in 1..n |-> EncGen(code, b0, b1)]))
ModulatorChunk(code, b0, b1, n) ==
  EncChunk(sPMOD, Concat([i \in 1..n |-> EncMod(code, b0, b1)]))

ChunkInit(buffer, type, method) ==
  /\ impl = "Parser"
  /\ option = Empty
  /\ input = buffer
  /\ pc = method
  /\ chunk = [x \in {"chunk"} |-> [type |-> type, size |-> Len(buffer) - 8, offset |-> 8]]
  /\ self = [x \in {"input", "sampleRate"} |->
               IF x = "input" THEN "buffer" ELSE DefaultSampleRate]
  /\ local = Empty
  /\ ret = Empty
  /\ error = ""
  /\ views = << >>

\* a call of parseGenerator(chunk)
Parser_parseGenerator ==
  /\ impl = "Parser" /\ pc = "parseGenerator"
  /\ ret' = Put(ret, "output", parseGenerator(input, chunk["chunk"]))
  /\ pc' = "output"
  /\ UNCHANGED << impl, option, views, input, chunk, self, local, error >>

\* a call of parseModulator(chunk)
Parser_parseModulator ==
  /\ impl = "Parser" /\ pc = "parseModulator"
  /\ ret' = Put(ret, "output", parseModulator(input, chunk["chunk"]))
  /\ pc' = "output"
  /\ UNCHANGED << impl, option, views, input, chunk, self, local, error >>

\* a code of each branch of the decoders: a scalar name, a range name, a
\* code outside the table
BranchCodes == {5, 43, 61}
\* the bytes of the fields parseModulator steps over
SkipBytes == {0, 41}

\* a modulator record whose three operator fields hold the byte s
EncModWith(s, code, b0, b1) ==
  << s, s >> \o U16LE(code) \o << b0, b1 >> \o << s, s >> \o << s, s >>

\* a chunk of two records that differ: amount bytes (1, 2) and (3, 4)
PairGeneratorChunk(c1, c2) ==
  EncChunk(sPGEN, EncGen(c1, 1, 2) \o EncGen(c2, 3, 4))
PairModulatorChunk(c1, c2, s) ==
  EncChunk(sPMOD, EncModWith(s, c1, 1, 2) \o EncModWith(s, c2, 3, 4))

InitGen ==
  \/ \E code \in Codes, b0 \in AmountBytes, b1 \in AmountBytes, n \in 1..MaxChunkRecords :
       \/ ChunkInit(GeneratorChunk(code, b0, b1, n), sPGEN, "parseGenerator")
       \/ ChunkInit(ModulatorChunk(code, b0, b1, n), sPMOD, "parseModulator")
  \/ \E c1 \in BranchCodes, c2 \in BranchCodes, s \in SkipBytes :
       \/ ChunkInit(PairGeneratorChunk(c1, c2), sPGEN, "parseGenerator")
       \/ ChunkInit(PairModulatorChunk(c1, c2, s), sPMOD, "parseModulator")

NextGen == Parser_parseGenerator \/ Parser_parseModulator

SpecGen == InitGen /\ [][NextGen]_vars

\* ------------------------------------------------------------------------
\* Properties of the decoded generator and modulator records
\* ------------------------------------------------------------------------

\* the records parseGenerator / parseModulator returned
Output == ret["output"]

GeneratorOutput == pc = "output" /\ chunk["chunk"].type = sPGEN

\* the bytes of record i of the chunk, taken from the buffer: its code and
\* its two amount bytes
RecordStart(i) ==
  IF chunk["chunk"].type = sPGEN
  THEN chunk["chunk"].offset + 4 * (i - 1)
  ELSE chunk["chunk"].offset + 10 * (i - 1) + 2
RecordInside(i) == RecordStart(i) + 4 <= Len(input)
CodeOf(i) == input[RecordStart(i) + 1] + 256 * input[RecordStart(i) + 2]
B0(i) == input[RecordStart(i) + 3]
B1(i) == input[RecordStart(i) + 4]

\* a record that carries a generator name / one that carries the raw tuple
DecodesKnown(r) == r.type \in KnownNames /\ "code" \notin DOMAIN r.value
DecodesUnknown(r) == r.type \notin KnownNames /\ "code" \in DOMAIN r.value

TableSplit(gaps) ==
  GeneratorOutput =>
    /\ Len(Output) = chunk["chunk"].size \div 4
    /\ \A i \in 1..Len(Output) :
         IF CodeOf(i) \in (0..59) \ gaps
         THEN DecodesKnown(Output[i])
         ELSE DecodesUnknown(Output[i])

C7_ValueShape ==
  pc = "output" =>
    \A i \in 1..Len(Output) :
      (RecordInside(i) /\ Output[i].type \in KnownNames) =>
        IF Output[i].type \in {"keyRange", "velRange", "keynum", "velocity"}
        THEN /\ Output[i].value = [lo |-> B0(i), hi |-> B1(i)]
             /\ B0(i) \in 0..255 /\ B1(i) \in 0..255
        ELSE /\ Output[i].value = [amount |-> Signed16(B0(i) + 256 * B1(i))]
             /\ Output[i].value.amount \in -32768..32767

\* a modulator record of a signed amount was decoded with a negative amount
C7_Witness ==
  /\ pc = "output" /\ chunk["chunk"].type = sPMOD
  /\ Len(Output) = MaxChunkRecords
  /\ Output[1].type = "pan"
  /\ B1(1) = 255
  /\ Output[1].value.amount < 0

\* the codes the table has no name for
Unrecognized(code) == code \notin 0..59 \/ code \in {14, 18, 19, 20, 42, 49, 55}

\* C8: a record with an unrecognized code c and amount bytes (b0, b1) decodes
\* to the type "unknown" and the value
\* {code: c, amount: signed16(b0 + 256*b1), lo: b0, hi: b1}.
C8_UnknownRecord ==
  pc = "output" =>
    \A i \in 1..Len(Output) :
      (RecordInside(i) /\ Unrecognized(CodeOf(i))) =>
        /\ Output[i].type = "unknown"
        /\ Output[i].value = [code |-> CodeOf(i),
                              amount |-> Signed16(B0(i) + 256 * B1(i)),
                              lo |-> B0(i), hi |-> B1(i)]

\* the part of C8 about the value alone
UnknownValueKept ==
  pc = "output" =>
    \A i \in 1..Len(Output) :
      (RecordInside(i) /\ Unrecognized(CodeOf(i))) =>
        Output[i].value = [code |-> CodeOf(i),
                           amount |-> Signed16(B0(i) + 256 * B1(i)),
                           lo |-> B0(i), hi |-> B1(i)]

\* the bytes of a record: 10 for a modulator, 4 for a generator
Width == IF chunk["chunk"].type = sPGEN THEN 4 ELSE 10

\* the value a record carries, by the branch its code takes, from the code
\* and the amount bytes of record i
ValueOf(i) ==
  IF Unrecognized(CodeOf(i))
  THEN [code |-> CodeOf(i), amount |-> Signed16(B0(i) + 256 * B1(i)),
        lo |-> B0(i), hi |-> B1(i)]
  ELSE IF GeneratorEnumeratorTable[CodeOf(i) + 1] \in {"keyRange", "velRange", "keynum", "velocity"}
  THEN [lo |-> B0(i), hi |-> B1(i)]
  ELSE [amount |-> Signed16(B0(i) + 256 * B1(i))]

\* C19: a modulator record takes exactly 10 bytes (2 stepped over, 2 of the
\* destination code, 2 of the amount, 2 and 2 stepped over) and a generator
\* record exactly 4, whichever branch its code takes: record i is read at
\* i - 1 widths from the start of the chunk, there is one record a width,
\* and a decoded record holds a type and a value and nothing else, the
\* value made of the code and amount bytes only.
C19_RecordWidth ==
  pc = "output" =>
    /\ Len(Output) * Width = chunk["chunk"].size
    /\ \A i \in 1..Len(Output) :
         /\ DOMAIN Output[i] = {"type", "value"}
         /\ Output[i].value = ValueOf(i)
         /\ ~Unrecognized(CodeOf(i)) =>
              Output[i].type = GeneratorEnumeratorTable[CodeOf(i) + 1]

\* two modulator records of different branches, their operator fields not
\* zero, were decoded
C19_Witness ==
  /\ pc = "output" /\ chunk["chunk"].type = sPMOD
  /\ input[chunk["chunk"].offset + 1] = 41
  /\ Len(Output) = 2
  /\ CodeOf(1) = 61 /\ CodeOf(2) = 43
  /\ Output[2].value = [lo |-> 3, hi |-> 4]

\* ------------------------------------------------------------------------
\* Chunks whose declared size is not a whole number of records
\* ------------------------------------------------------------------------

\* the bytes by which the declared size falls short of the last record
Cuts == {1, 2, 3}

\* parseGenerator / parseModulator on a chunk of n records declared `cut`
\* bytes short of its last amount byte; the bytes after the declared end
\* are those of what follows in the buffer (kept) or are not there
RaggedInit(payload, read, cut, kept, type, method) ==
  /\ impl = "Parser"
  /\ option = Empty
  /\ input = type \o U32LE(read - cut)
               \o (IF kept THEN payload ELSE SubSeq(payload, 1, read - cut))
  /\ pc = method
  /\ chunk = [x \in {"chunk"} |-> [type |-> type, size |-> read - cut, offset |-> 8]]
  /\ self = [x \in {"input", "sampleRate"} |->
               IF x = "input" THEN "buffer" ELSE DefaultSampleRate]
  /\ local = Empty
  /\ ret = Empty
  /\ error = ""
  /\ views = << >>

InitRagged ==
  \E code \in BranchCodes, b0 \in AmountBytes \ {0}, n \in 1..MaxChunkRecords,
     cut \in Cuts, kept \in BOOLEAN :
    \/ RaggedInit(Concat([i \in 1..n |-> EncGen(code, b0, i)]), 4 * n, cut, kept,
                  sPGEN, "parseGenerator")
    \/ RaggedInit(Concat([i \in 1..n |-> EncModWith(41, code, b0, i)]), 10 * n - 4, cut, kept,
                  sPMOD, "parseModulator")

SpecRagged == InitRagged /\ [][NextGen]_vars

\* the end of the declared range of the chunk
ChunkEnd == chunk["chunk"].offset + chunk["chunk"].size

\* C22: every byte read for a record of a pdta subchunk lies in the declared
\* range [offset, offset + size) of the chunk: when the size is not a
\* multiple of the record width no record is built from bytes beyond the
\* end of the chunk (those of what follows, or the 0 read past the buffer).
C22_ReadsInsideChunk ==
  pc = "output" =>
    \A i \in 1..Len(Output) : RecordStart(i) + 4 <= ChunkEnd

\* what the loop does: a record is built wherever one starts before the
\* end of the chunk, so the last one may reach over it
RecordPerStart ==
  pc = "output" =>
    Len(Output) = (chunk["chunk"].size + Width - 1) \div Width

\* the last record holds an amount byte of what follows the chunk
ReadsFollowingBytes ==
  /\ pc = "output" /\ Len(input) > ChunkEnd
  /\ Len(Output) >= 1
  /\ RecordStart(Len(Output)) + 4 > ChunkEnd
  /\ "hi" \in DOMAIN Output[Len(Output)].value
  /\ Output[Len(Output)].value.hi = input[RecordStart(Len(Output)) + 4]

\* parseChunk of parse() on the same chunk: it too builds a record from the
\* bytes after the end of the chunk when they are in the buffer
ParseChunkInside ==
  pc = "output" =>
    LET r == parseChunk(chunk["chunk"], input, chunk["chunk"].type)
    IN  r.ok => Len(r.result) * Width <= chunk["chunk"].size

\* ------------------------------------------------------------------------
\* SynthesizerNote: the note object and the audio nodes it drives
\* ------------------------------------------------------------------------

\* most method calls made on one note
MaxCalls == 4

\* instrument['sampleModes']: the four cases of the switch and a missing value
SampleModes == {0, 1, 2, 3, undefined}

\* an AudioParam is the sequence of the scheduling calls made on it
NoSchedule == << >>

\* new SynthesizerNote(ctx, destination, instrument): the fields release(),
\* noteOn(), noteOff() and isNoteOff() read or write, the nodes as created
SynthesizerNoteNew(instrument) ==
  /\ impl = "SynthesizerNote"
  /\ option = Empty
  /\ input = << >>
  /\ pc = "constructed"
  /\ chunk = Empty
  /\ self = [instrument |-> instrument,
             noteOffState |-> FALSE,
             audioBuffer |-> "undefined",
             bufferSource |-> [buffer |-> "null", loop |-> FALSE, connected |-> FALSE,
                               started |-> FALSE, stop |-> FALSE,
                               playbackRate |-> NoSchedule],
             outputGain |-> NoSchedule,
             outputConnected |-> FALSE,
             modulatorFrequency |-> NoSchedule]
  /\ local = [x \in {"calls"} |-> << >>]
  /\ ret = Empty
  /\ error = ""
  /\ views = << >>

\* schedulePlaybackRate(): the four calls on bufferSource.playbackRate
schedulePlaybackRate(this) ==
  [this EXCEPT !.bufferSource.playbackRate =
     @ \o << "cancelScheduledValues", "setValueAtTime",
             "linearRampToValueAtTime", "linearRampToValueAtTime" >>]

\* noteOn(): the buffer is created and set, the envelopes are scheduled, the
\* nodes are connected and the source is started
noteOn(this) ==
  LET sampleModes == this.instrument.sampleModes
      created == [this EXCEPT !.audioBuffer = "AudioBuffer",
                              !.bufferSource.buffer = "AudioBuffer",
                              !.bufferSource.loop =
                                 (sampleModes # undefined /\ sampleModes # 0)]
      pitched == schedulePlaybackRate(created)
  IN  [pitched EXCEPT
         !.outputGain = @ \o << "setValueAtTime", "setValueAtTime", "setTargetAtTime",
                                "setValueAtTime", "linearRampToValueAtTime" >>,
         !.modulatorFrequency = @ \o << "value", "setTargetAtTime", "setValueAtTime",
                                        "setValueAtTime", "setTargetAtTime",
                                        "setValueAtTime", "linearRampToValueAtTime" >>,
         !.bufferSource.connected = TRUE,
         !.outputConnected = ~this.instrument.mute,
         !.bufferSource.started = TRUE]

\* release() without the return on a note that has no audio buffer
releaseUnguarded(this) ==
  CASE this.instrument.sampleModes = 1 ->
         [this EXCEPT
            !.outputGain = @ \o << "cancelScheduledValues", "setValueAtTime",
                                   "linearRampToValueAtTime" >>,
            !.modulatorFrequency = @ \o << "cancelScheduledValues", "setValueAtTime",
                                           "linearRampToValueAtTime" >>,
            !.bufferSource.playbackRate = @ \o << "cancelScheduledValues", "setValueAtTime",
                                                  "linearRampToValueAtTime" >>,
            !.bufferSource.stop = TRUE]
    [] this.instrument.sampleModes = 3 ->
         [this EXCEPT !.bufferSource.loop = FALSE,
                      !.bufferSource.connected = FALSE,
                      !.bufferSource.buffer = "null"]
    [] OTHER -> this

\* release(): nothing before noteOn() has set this.audioBuffer; then the
\* switch on instrument['sampleModes']
release(this) ==
  IF this.audioBuffer = "undefined" THEN this
  ELSE CASE this.instrument.sampleModes = 1 ->
              [this EXCEPT
                 !.outputGain = @ \o << "cancelScheduledValues", "setValueAtTime",
                                        "linearRampToValueAtTime" >>,
                 !.modulatorFrequency = @ \o << "cancelScheduledValues", "setValueAtTime",
                                                "linearRampToValueAtTime" >>,
                 !.bufferSource.playbackRate = @ \o << "cancelScheduledValues", "setValueAtTime",
                                                       "linearRampToValueAtTime" >>,
                 !.bufferSource.stop = TRUE]
         [] this.instrument.sampleModes = 3 ->
              [this EXCEPT !.bufferSource.loop = FALSE,
                           !.bufferSource.connected = FALSE,
                           !.bufferSource.buffer = "null"]
         [] OTHER -> this

\* the caller makes one more call on the note
Call(method) ==
  /\ impl = "SynthesizerNote"
  /\ Len(local["calls"]) < MaxCalls
  /\ local' = [local EXCEPT !["calls"] = Append(@, method)]

\* the source of a note is started once
SynthesizerNote_noteOn ==
  /\ Call("noteOn")
  /\ ~self.bufferSource.started
  /\ self' = noteOn(self)
  /\ UNCHANGED << impl, option, views, input, pc, chunk, ret, error >>

SynthesizerNote_noteOff ==
  /\ Call("noteOff")
  /\ self' = [self EXCEPT !.noteOffState = TRUE]
  /\ UNCHANGED << impl, option, views, input, pc, chunk, ret, error >>

SynthesizerNote_isNoteOff ==
  /\ Call("isNoteOff")
  /\ ret' = Put(ret, "isNoteOff", self.noteOffState)
  /\ UNCHANGED << impl, option, views, input, pc, chunk, self, error >>

SynthesizerNote_release ==
  /\ Call("release")
  /\ self' = release(self)
  /\ UNCHANGED << impl, option, views, input, pc, chunk, ret, error >>

InitNote ==
  \E sampleModes \in SampleModes, mute \in BOOLEAN :
    SynthesizerNoteNew([sampleModes |-> sampleModes, mute |-> mute])

NextNote ==
  \/ SynthesizerNote_noteOn
  \/ SynthesizerNote_noteOff
  \/ SynthesizerNote_isNoteOff
  \/ SynthesizerNote_release

SpecNote == InitNote /\ [][NextNote]_vars

\* ------------------------------------------------------------------------
\* Properties of the note
\* ------------------------------------------------------------------------

\* the methods called on the note so far, and the one a step calls
Calls == local["calls"]
Called(method) == Len(Calls') = Len(Calls) + 1 /\ Calls'[Len(Calls')] = method
WasCalled(method) == \E k \in 1..Len(Calls) : Calls[k] = method

\* the state of the audio nodes: the schedules of the three parameters and
\* the buffer source
AudioNodes ==
  << self.outputGain, self.modulatorFrequency, self.bufferSource, self.outputConnected >>

\* C23: release() before noteOn() has created the audio buffer changes no
\* state of the audio nodes (no schedule of the gain, the filter frequency
\* or the playback rate is cancelled or set, the source is not stopped or
\* disconnected); after noteOn() release() schedules a stop of the source
\* only when sampleModes is 1; noteOffState is false until noteOff() is
\* called and true in every state after.
C23_ReleaseAndNoteOff ==
  /\ [](self.noteOffState <=> WasCalled("noteOff"))
  /\ [][Called("release") =>
          /\ ~WasCalled("noteOn") => AudioNodes' = AudioNodes
          /\ (self'.bufferSource.stop /\ ~self.bufferSource.stop) =>
               (WasCalled("noteOn") /\ self.instrument.sampleModes = 1)]_vars

\* release() was called before noteOn() and again after it on a note of
\* sampleModes 1, and noteOff() in between
C23_Witness ==
  /\ impl = "SynthesizerNote"
  /\ Calls = << "release", "noteOn", "noteOff", "release" >>
  /\ self.instrument.sampleModes = 1
  /\ self.bufferSource.stop
  /\ self.noteOffState

====
